---- MODULE Spec2Model ----
(***************************************************************************)
(* FoodSnap (src/app.js): the offline-first meal log and its               *)
(* synchronisation with the remote store.                                  *)
(*                                                                         *)
(* The model follows the client code: the in-memory State (logs,           *)
(* exercise, pendingMeal, editingMealId), the localStorage keys            *)
(* fs_logs_v1, fs_pending_sync, fs_exercise_v1 and fs_user_id, the save    *)
(* handlers, the delete handler with its await of the server's answer,     *)
(* the background push, the retry sweep run at page load, the              *)
(* sign-in with its link-legacy request, and the pull (syncFromCloud /     *)
(* mergeCloudMeals, mergeCloudActivity), the profile with the targets      *)
(* calcGoals derives, the advice of buildAdvice, and the analysis with its *)
(* local fallback. The server (src/unnamed/part_001) resolves the identity *)
(* of a request, keeps the rows of the meals, user_goals and               *)
(* daily_activity tables and answers the link-legacy request.              *)
(*                                                                         *)
(* Abstractions:                                                           *)
(*  - a food item carries kcal and one macro (p locally, protein_g in the  *)
(*    remote schema); c and f are handled by the code exactly like p;      *)
(*  - imageDataUrl is a flag (image present or not);                       *)
(*  - localStorage.setItem is an oracle: every saveJSON call is given the  *)
(*    outcome of its writes (see StorageOutcomes);                         *)
(*  - a day key is the number of the day since the epoch;                  *)
(*  - calcGoals is computed on scaled integers (kcal times 3200), and the  *)
(*    items of an analysis carry kcal and p in tenths.                     *)
(***************************************************************************)
EXTENDS Integers, Sequences, FiniteSets, TLC

(* ------------------------------ bounds --------------------------------- *)
MaxIds == 2
NumInstants == 3
SaveInstants == 2
MaxSaves == 1
MaxReloads == 1
MaxRemotePosts == 1
MaxRows == 2

(* -------------------------- program constants -------------------------- *)
WindowMs == 60000
MaxSyncAttempts == 5
NoCloudId == 0
Undef == -1
NaN == -2
DefaultPortion == 100
DayMs == 24 * 3600000
cleanupDays == <<7, 3, 1, 0>>
PurgeMinLength == 1000
ExerciseEntryLength == 83

(* ------------------------------- time ---------------------------------- *)
\* The instants Date.now() takes: 15:59:30 UTC and later, so that in a
\* UTC+8 zone the local calendar day changes between the first two.
BaseMs == 16 * 3600000 - 30000
InstantOffsets == <<0, 59999, 120000, 180000, 240000, 300000>>
Instant(i) == BaseMs + InstantOffsets[i]
TzOffsets == {0, 8 * 3600000}
Days == {-8, -4, -2, -1, 0, 1}

Abs(x) == IF x < 0 THEN -x ELSE x

(* ------------------------------- values -------------------------------- *)
NoId == <<"none", 0>>
LocalId(n) == <<"u", n>>
CloudLocalId(n) == <<"cloud", n>>
NoMeal == [id |-> NoId]
\* the ids a record of the log can have
RecordIds ==
  {LocalId(n) : n \in 1 .. MaxIds} \cup {CloudLocalId(n) : n \in 1 .. MaxRows}
\* the id onAnalyze gives a draft: every save overwrites it before it is read
DraftId == <<"draft", 0>>

\* identities: no stored id, the id getUserId generates at time t, the id of
\* the signed-in account
NoUser == <<"none", 0>>
DeviceId(t) == <<"user", t>>
AccountId == <<"account", 0>>

MealTypes == {"lunch", "dinner"}

Rice == [name |-> "rice", portion_g |-> Undef, kcal |-> 200, p |-> 4,
         protein_g |-> Undef]
Egg == [name |-> "egg", portion_g |-> Undef, kcal |-> 80, p |-> 7,
        protein_g |-> Undef]
AnalysisResults == {<<Rice, Egg>>}

EmptyLogs == [d \in Days |-> <<>>]

VARIABLES
  now,            \* index of the current instant
  tz,             \* UTC offset of the device, ms
  nextId,         \* ids cryptoRandomId gave to saved records so far + 1
  loggedIn,       \* isLoggedIn()
  userId,         \* localStorage fs_user_id
  link,           \* the link-legacy request of the sign-in callback
  linkCalls,      \* link-legacy requests the latest sign-in sent
  logs,           \* State.logs
  pendingMeal,    \* State.pendingMeal
  editingMealId,  \* State.editingMealId
  uiDay,          \* the day renderIndex last rendered
  toast,          \* the message of the save handler on screen
  lsLogs,         \* localStorage fs_logs_v1
  lsPending,      \* localStorage fs_pending_sync
  exercise,       \* State.exercise, the entries of its days
  lsExercise,     \* localStorage fs_exercise_v1, the entries of its days
  inflight,       \* POSTs of newly saved meals awaiting their response
  sweep,          \* the running syncPendingMeals, if any
  pull,           \* the running syncFromCloud, if any
  srv,            \* rows of the server's meals table
  reloads,        \* page loads so far
  remotePosts,    \* meals posted by another device so far
  net,            \* the network: "flaky" (a request may fail) or "up"
  pushFails,      \* per local id, the POSTs of that meal that failed so far
  profile,        \* State.profile
  lsProfile,      \* localStorage fs_profile_v1
  srvGoal,        \* the account's row of the server's user_goals table
  srvDeviceGoal,  \* the device id's row of the server's user_goals table
  srvActivity,    \* rows of the server's daily_activity table
  advice,         \* the latest buildAdvice call: arguments and text
  resp,           \* the server's answer to the latest direct request
  exLoad,         \* the loadExerciseFromAPI of the page load, if running
  deleting,       \* the delete handler awaiting the server's answer, if any
  removed         \* history: the records the delete handler removed

vars == <<now, tz, nextId, loggedIn, userId, link, linkCalls, logs,
          pendingMeal, editingMealId, uiDay,
          toast, lsLogs, lsPending, exercise, lsExercise, inflight, sweep,
          pull, srv, reloads, remotePosts, net, pushFails, profile, lsProfile,
          srvGoal, srvDeviceGoal, srvActivity, advice, resp, exLoad, deleting,
          removed>>

(* ------------------------------ helpers -------------------------------- *)
Now == Instant(now)
UtcDay(t) == t \div DayMs
LocalDay(t) == (t + tz) \div DayMs
todayKey == LocalDay(Now)
LocalHour(t) == ((t + tz) % DayMs) \div 3600000

getSmartMealType ==
  LET hour == LocalHour(Now)
  IN IF hour >= 5 /\ hour < 10 THEN "breakfast"
     ELSE IF hour >= 10 /\ hour < 14 THEN "lunch"
     ELSE IF hour >= 14 /\ hour < 17 THEN "snack"
     ELSE IF hour >= 17 /\ hour < 21 THEN "dinner"
     ELSE "snack"

Plus(a, b) == IF a = NaN \/ b = NaN \/ b = Undef THEN NaN ELSE a + b

RECURSIVE sumMealItems(_)
sumMealItems(items) ==
  IF items = <<>> THEN [kcal |-> 0, p |-> 0]
  ELSE LET acc == sumMealItems(SubSeq(items, 1, Len(items) - 1))
           it == items[Len(items)]
       IN [kcal |-> Plus(acc.kcal, it.kcal), p |-> Plus(acc.p, it.p)]

\* findIndex: the least of the indices that satisfy the predicate, 0 when
\* none does
FirstOf(hits) ==
  IF hits = {} THEN 0 ELSE CHOOSE i \in hits : \A j \in hits : i <= j

\* arr.findIndex(x => x.id === id) and arr.find(x => x.id === id)
IndexOfId(s, id) == FirstOf({i \in 1 .. Len(s) : s[i].id = id})

Unshift(s, x) == <<x>> \o s

(* ------------------------ localStorage / saveJSON ---------------------- *)
\* The outcome of one saveJSON call: which of its setItem calls succeeds.
\*  "ok"          the first write succeeds
\*  "ok7".."ok0"  the write succeeds after the cleanup of that many days
\*  "okPurge"     the write succeeds after cleanNonEssentialData
\*  "full"        every write fails with a quota error
\*  "unavailable" the probe write fails
\*  "other"       the first write fails with an error that is not a quota error
StorageOutcomes ==
  {"ok", "ok7", "ok3", "ok1", "ok0", "okPurge", "full", "unavailable", "other"}

Rungs(o) ==
  CASE o = "ok7" -> 1
    [] o = "ok3" -> 2
    [] o = "ok1" -> 3
    [] o \in {"ok0", "okPurge", "full"} -> 4
    [] OTHER -> 0

Succeeds(o) == o \in {"ok", "ok7", "ok3", "ok1", "ok0", "okPurge"}
Purges(o) == o \in {"okPurge", "full"}
ErrorOf(o) ==
  CASE o = "unavailable" -> "STORAGE_UNAVAILABLE"
    [] o = "full" -> "STORAGE_FULL"
    [] o = "other" -> "OTHER"
    [] OTHER -> "NONE"

StripImage(meal) == [meal EXCEPT !.img = FALSE]

cleanOldImages(lg, daysToKeep) ==
  LET today == todayKey
  IN [d \in DOMAIN lg |->
        IF today - d > daysToKeep /\ \E i \in 1 .. Len(lg[d]) : lg[d][i].img
        THEN [i \in 1 .. Len(lg[d]) |-> StripImage(lg[d][i])]
        ELSE lg[d]]

\* the first n steps of the progressive cleanup applied to a logs value
RECURSIVE Ladder(_, _)
Ladder(lg, n) ==
  IF n = 0 THEN lg ELSE cleanOldImages(Ladder(lg, n - 1), cleanupDays[n])

\* data.length > 1000 for the stored queue: certain with an embedded image,
\* impossible for "[]", either way otherwise
QueueBigChoices(q) ==
  IF q = <<>> THEN {FALSE}
  ELSE IF \E i \in 1 .. Len(q) : q[i].img THEN {TRUE}
  ELSE BOOLEAN

\* an entry of State.exercise: the form's entry carries source: 'manual',
\* the pulled one synced: true, the one loaded at page load neither
ExerciseEntry(day, kcal, src) ==
  [day |-> day, exerciseKcal |-> kcal, src |-> src]

\* State.exercise[day] = entry
SetEntry(e, entry) == {x \in e : x.day # entry.day} \cup {entry}

\* JSON.stringify of the activity cache: 83 characters a day for an entry
\* such as "2025-01-01":{"exerciseKcal":300,"steps":8000,"activeMinutes":30,
\* "source":"manual"}, 4 less with "synced":true, 18 less with neither, a
\* comma between entries, two braces
EntryLength(x) ==
  CASE x.src = "manual" -> ExerciseEntryLength
    [] x.src = "synced" -> ExerciseEntryLength - 4
    [] OTHER -> ExerciseEntryLength - 18

RECURSIVE EntriesLength(_)
EntriesLength(e) ==
  IF e = {} THEN 0
  ELSE LET x == CHOOSE y \in e : TRUE
       IN EntryLength(x) + EntriesLength(e \ {x})

ExerciseLength(e) ==
  IF e = {} THEN 2 ELSE 2 + EntriesLength(e) + Cardinality(e) - 1

\* cleanNonEssentialData removes a key only when data.length > 1000
ExerciseBig(e) == ExerciseLength(e) > PurgeMinLength

PurgedExercise(o, e) == IF Purges(o) /\ ExerciseBig(e) THEN {} ELSE e

\* The three stored keys, as one value.
Store == [logs |-> lsLogs, queue |-> lsPending, exercise |-> lsExercise]

\* A retry can only succeed where the step before it freed something.
Feasible(o, value, big, st) ==
  /\ o \in {"ok7", "ok3", "ok1", "ok0"} =>
       \/ Ladder(value, Rungs(o)) # Ladder(value, Rungs(o) - 1)
       \/ Ladder(st.logs, Rungs(o)) # Ladder(st.logs, Rungs(o) - 1)
  /\ o = "okPurge" => big \/ ExerciseBig(st.exercise)
  /\ big \in IF Purges(o) THEN QueueBigChoices(st.queue) ELSE {FALSE}

FeasibleQueue(o, big, st) ==
  /\ o \in {"ok7", "ok3", "ok1", "ok0"} =>
       Ladder(st.logs, Rungs(o)) # Ladder(st.logs, Rungs(o) - 1)
  /\ o = "okPurge" => big \/ ExerciseBig(st.exercise)
  /\ big \in IF Purges(o) THEN QueueBigChoices(st.queue) ELSE {FALSE}

\* saveJSON(LS_KEYS.logs, value): what it returns or throws, the value after
\* the in-place cleanOldImages(value, days), and the two stored keys.
saveJSONLogs(value, o, big, st) ==
  [ok |-> Succeeds(o),
   err |-> ErrorOf(o),
   value |-> Ladder(value, Rungs(o)),
   logs |-> IF Succeeds(o) THEN Ladder(value, Rungs(o))
            ELSE Ladder(st.logs, Rungs(o)),
   queue |-> IF Purges(o) /\ big THEN <<>> ELSE st.queue,
   exercise |-> PurgedExercise(o, st.exercise)]

\* saveJSON('fs_pending_sync', value): cleanOldImages leaves an array as
\* it is, cleanStoredImages still strips the stored logs.
saveJSONQueue(value, o, big, st) ==
  [ok |-> Succeeds(o),
   err |-> ErrorOf(o),
   logs |-> Ladder(st.logs, Rungs(o)),
   queue |-> IF Succeeds(o) THEN value
             ELSE IF Purges(o) /\ big THEN <<>> ELSE st.queue,
   exercise |-> PurgedExercise(o, st.exercise)]

\* saveJSON('fs_exercise_v1', value): cleanOldImages finds no day list in
\* the value, cleanStoredImages still strips the stored logs.
saveJSONExercise(value, o, big, st) ==
  [ok |-> Succeeds(o),
   err |-> ErrorOf(o),
   logs |-> Ladder(st.logs, Rungs(o)),
   queue |-> IF Purges(o) /\ big THEN <<>> ELSE st.queue,
   exercise |-> IF Succeeds(o) THEN value ELSE PurgedExercise(o, st.exercise)]

\* the message the save handler shows for a thrown error
SaveErrorToast(err) ==
  CASE err = "STORAGE_UNAVAILABLE" -> "storageUnavailable"
    [] err = "STORAGE_FULL" -> "storageFull"
    [] OTHER -> "saveFailed"

(* ------------------------- profile and targets ------------------------- *)
GoalTypes == {"cut", "bulk", "maintain"}
Sexes == {"male", "female"}
\* the values of the activity select, in thousandths
ActivityFactors == {1200, 1375, 1550, 1725, 1900}
ActivityLevels == {"sedentary", "light", "moderate", "active", "very_active"}

\* Math.round(n / d) for d > 0: halves go up
round0(n, d) == (2 * n + d) \div (2 * d)

NoProfile == [goalType |-> "none"]

defaultProfile ==
  [goalType |-> "maintain", sex |-> "male", gender |-> "none", age |-> 28,
   height |-> 175, weight |-> 70, activity |-> 1375,
   goals |-> [kcal |-> 2000, p |-> 120, c |-> 220, f |-> 60]]

\* Mifflin-St Jeor, times 4: 10 w + 6.25 h - 5 a + s
Bmr4(prof) ==
  40 * prof.weight + 25 * prof.height - 20 * prof.age
    + 4 * (IF prof.sex = "male" THEN 5 ELSE -161)

\* no goal changes the calorie target
GoalFactorFlat(goalType) == 20

\* the factor applied to the TDEE, times 20: 0.85, 1.10, 1.00
GoalFactor(goalType) ==
  IF goalType = "cut" THEN 17 ELSE IF goalType = "bulk" THEN 22 ELSE 20

\* the share of the calories given to each macro, times 20
MacroRatio(goalType) ==
  IF goalType = "cut" THEN [p |-> 6, c |-> 8, f |-> 6]
  ELSE IF goalType = "bulk" THEN [p |-> 5, c |-> 10, f |-> 5]
  ELSE [p |-> 5, c |-> 9, f |-> 6]

\* calcGoals: kcal3200 is the unrounded calorie target times 3200 (4 from
\* the BMR, 40 from the activity factor, 20 from the goal factor); the
\* macros are computed from the unrounded target and rounded on their own
calcGoals(prof) ==
  LET activity == IF prof.activity = 0 THEN 1200 ELSE prof.activity
      kcal3200 == Bmr4(prof) * (activity \div 25)
                    * GoalFactor(prof.goalType)
      ratio == MacroRatio(prof.goalType)
  IN [kcal |-> round0(kcal3200, 3200),
      p |-> round0(kcal3200 * ratio.p, 3200 * 20 * 4),
      c |-> round0(kcal3200 * ratio.c, 3200 * 20 * 4),
      f |-> round0(kcal3200 * ratio.f, 3200 * 20 * 9)]

\* readProfileForm: the six inputs of the profile sheet
ProfileForms ==
  [goalType : GoalTypes, sex : Sexes, gender : {"none"}, age : {30, 45},
   height : {175}, weight : {70, 55}, activity : ActivityFactors]

WithGoals(p, goals) ==
  [goalType |-> p.goalType, sex |-> p.sex, gender |-> p.gender,
   age |-> p.age, height |-> p.height, weight |-> p.weight,
   activity |-> p.activity, goals |-> goals]

\* activityToString of syncProfileToCloud
activityToString(val) ==
  IF val <= 1200 THEN "sedentary"
  ELSE IF val <= 1375 THEN "light"
  ELSE IF val <= 1550 THEN "moderate"
  ELSE IF val <= 1725 THEN "active"
  ELSE "very_active"

\* activityMap of syncFromCloud; 0 stands for undefined
activityMap(level) ==
  CASE level = "sedentary" -> 1200
    [] level = "light" -> 1375
    [] level = "moderate" -> 1550
    [] level = "active" -> 1725
    [] level = "very_active" -> 1900
    [] OTHER -> 0

\* the body syncProfileToCloud posts to /api/user/goal
GoalBody(p) ==
  [goal_type |-> p.goalType,
   profile |-> [age |-> p.age, gender |-> p.gender, height_cm |-> p.height,
                weight_kg |-> p.weight,
                activity_level |-> activityToString(p.activity)]]

\* Number(profile[name]) || dflt on the server: the posted profile has no
\* field of that name, or one holding a number
NumberOr(prof, name, dflt) ==
  IF name \in DOMAIN prof /\ prof[name] \in Int /\ prof[name] # 0
  THEN prof[name] ELSE dflt

\* computeTargets of the server: the same formula on the fields weight,
\* height, age, sex and activity of the posted profile, each with a default
computeTargets(goalType, prof) ==
  LET g == calcGoals(
             [goalType |-> goalType,
              sex |-> IF "sex" \in DOMAIN prof THEN prof.sex ELSE "male",
              age |-> NumberOr(prof, "age", 30),
              height |-> NumberOr(prof, "height", 175),
              weight |-> NumberOr(prof, "weight", 70),
              activity |-> NumberOr(prof, "activity", 1375)])
  IN [kcal |-> g.kcal, protein_g |-> g.p, carbs_g |-> g.c, fat_g |-> g.f]

NoGoal == [goal_type |-> "none"]

\* POST /api/user/goal: the row INSERT OR REPLACE writes
GoalRow(body) ==
  [goal_type |-> body.goal_type, profile |-> body.profile,
   targets |-> computeTargets(body.goal_type, body.profile)]

\* an answer that carries the row of user_goals, as GET /api/user/goal does
ProfileResponseGoal == [user |-> AccountId, goal |-> srvGoal]

\* GET /api/user/profile, as syncFromCloud reads it: the answer describes
\* the user and has no goal
ProfileResponse == [user |-> AccountId]

\* the profile part of syncFromCloud: the server's values where it has
\* them, the local ones otherwise
mergeProfile(profileData, prof) ==
  IF "goal" \notin DOMAIN profileData THEN prof
  ELSE IF profileData.goal.goal_type = "none" THEN prof
  ELSE LET serverProfile == profileData.goal.profile
           serverTargets == profileData.goal.targets
       IN IF serverProfile.age = 0 /\ serverProfile.weight_kg = 0 THEN prof
          ELSE [goalType |-> profileData.goal.goal_type,
                sex |-> prof.sex,
                gender |-> IF serverProfile.gender = "none" THEN prof.gender
                           ELSE serverProfile.gender,
                age |-> IF serverProfile.age = 0 THEN prof.age
                        ELSE serverProfile.age,
                height |-> IF serverProfile.height_cm = 0 THEN prof.height
                           ELSE serverProfile.height_cm,
                weight |-> IF serverProfile.weight_kg = 0 THEN prof.weight
                           ELSE serverProfile.weight_kg,
                activity |->
                  IF activityMap(serverProfile.activity_level) = 0
                  THEN prof.activity
                  ELSE activityMap(serverProfile.activity_level),
                goals |-> IF serverTargets.kcal = 0 THEN prof.goals
                          ELSE [kcal |-> serverTargets.kcal,
                                p |-> serverTargets.protein_g,
                                c |-> serverTargets.carbs_g,
                                f |-> serverTargets.fat_g]]

(* ------------------------------- advice -------------------------------- *)
Min(a, b) == IF a < b THEN a ELSE b

\* the text buildAdvice returns: the template chosen and the amount it
\* names (the language and the other numbers of the text are left out)
AdviceText(rule, amount) == [rule |-> rule, amount |-> amount]

\* buildAdvice: the first branch whose test holds
buildAdvice(prof, daySum, exerciseKcal) ==
  LET g == prof.goals
      netKcal == daySum.kcal - exerciseKcal
      dk == g.kcal - netKcal
      dp == g.p - daySum.p
      dc == g.c - daySum.c
      df == g.f - daySum.f
  IN IF exerciseKcal > 200 /\ dk > 200 THEN AdviceText("exercise", dk)
     ELSE IF dk < -150 THEN AdviceText("overage", -dk)
     ELSE IF dp > 20 THEN AdviceText("protein", Min(dp, 35))
     ELSE IF df < -15 THEN AdviceText("fat", -df)
     ELSE IF dc < -40 /\ dk > 150 THEN AdviceText("carbs", Min(-dc, 80))
     ELSE AdviceText("onTrack", 0)

\* sums of a day and calories burnt, around the targets 2000 / 120 / 220 /
\* 60 of the default profile and 2267 / 142 / 255 / 76 of the saved one
DaySums ==
  [kcal : {1000, 1700, 1900, 2200, 2500}, p : {60, 95, 110},
   c : {100, 170, 220, 270}, f : {50, 80}]

BurntKcals == {0, 300}

(* ------------------------------- Init ---------------------------------- *)
NoAdvice == [text |-> "none"]
NoResponse == [kind |-> "none"]

NoDelete ==
  [active |-> FALSE, day |-> 0, arr |-> <<>>, idx |-> 0, cloudId |-> NoCloudId,
   owner |-> NoUser]

NoSweep ==
  [active |-> FALSE, pending |-> <<>>, i |-> 0, still |-> <<>>, failed |-> {}]

Init ==
  /\ now = 1
  /\ tz \in TzOffsets
  /\ nextId = 1
  /\ loggedIn = FALSE
  /\ userId = DeviceId(Instant(1))
  /\ link = "idle"
  /\ linkCalls = 0
  /\ logs = EmptyLogs
  /\ pendingMeal = NoMeal
  /\ editingMealId = NoId
  /\ uiDay = LocalDay(Instant(1))
  /\ toast = "none"
  /\ lsLogs = EmptyLogs
  /\ lsPending = <<>>
  /\ exercise = {}
  /\ lsExercise = {}
  /\ inflight = {}
  /\ sweep = NoSweep
  /\ pull = "idle"
  /\ srv = <<>>
  /\ reloads = 0
  /\ remotePosts = 0
  /\ net = "flaky"
  /\ pushFails = [n \in 1 .. MaxIds |-> 0]
  /\ profile = defaultProfile
  /\ lsProfile = NoProfile
  /\ srvGoal = NoGoal
  /\ srvDeviceGoal = NoGoal
  /\ srvActivity = {}
  /\ advice = NoAdvice
  /\ resp = NoResponse
  /\ exLoad = "idle"
  /\ deleting = NoDelete
  /\ removed = {}

(* ------------------------------ actions -------------------------------- *)
\* time passes; a toast is taken down after 2 s
Tick ==
  /\ now < NumInstants
  /\ now' = now + 1
  /\ toast' = "none"
  /\ UNCHANGED <<tz, nextId, loggedIn, userId, link, linkCalls, logs,
                 pendingMeal, editingMealId, uiDay, lsLogs, lsPending,
                 exercise, lsExercise, inflight, sweep, pull, srv, reloads,
                 remotePosts, net, pushFails, profile, lsProfile, srvGoal,
                 srvDeviceGoal, srvActivity, advice, resp, exLoad, deleting,
                 removed>>

\* onAnalyze: the analysis returned items; a draft enters review
onAnalyze(items) ==
  /\ pendingMeal' = [id |-> DraftId, cloudId |-> NoCloudId,
                     createdAt |-> Now, mealType |-> getSmartMealType,
                     img |-> TRUE, items |-> items,
                     summary |-> sumMealItems(items), synced |-> FALSE]
  /\ editingMealId' = NoId
  /\ UNCHANGED <<now, tz, nextId, loggedIn, userId, link, linkCalls, logs,
                 uiDay, toast, lsLogs, lsPending, exercise, lsExercise,
                 inflight, sweep, pull, srv, reloads, remotePosts, net,
                 pushFails, profile, lsProfile, srvGoal, srvDeviceGoal,
                 srvActivity, advice, resp, exLoad, deleting, removed>>

\* the view button of a rendered record: the record opens for editing
viewMeal(id) ==
  /\ \E i \in 1 .. Len(logs[uiDay]) : logs[uiDay][i].id = id
  /\ LET idx == IndexOfId(logs[uiDay], id)
     IN pendingMeal' = logs[uiDay][idx]
  /\ editingMealId' = id
  /\ UNCHANGED <<now, tz, nextId, loggedIn, userId, link, linkCalls, logs,
                 uiDay, toast, lsLogs, lsPending, exercise, lsExercise,
                 inflight, sweep, pull, srv, reloads, remotePosts, net,
                 pushFails, profile, lsProfile, srvGoal, srvDeviceGoal,
                 srvActivity, advice, resp, exLoad, deleting, removed>>

\* the delete button of an item of the result sheet
deleteItem(k) ==
  /\ pendingMeal # NoMeal
  /\ k \in 1 .. Len(pendingMeal.items)
  /\ LET items == [i \in 1 .. Len(pendingMeal.items) - 1 |->
                     IF i < k THEN pendingMeal.items[i]
                     ELSE pendingMeal.items[i + 1]]
     IN pendingMeal' = [pendingMeal EXCEPT
                          !.items = items, !.summary = sumMealItems(items)]
  /\ UNCHANGED <<now, tz, nextId, loggedIn, userId, link, linkCalls, logs,
                 editingMealId, uiDay, toast, lsLogs, lsPending, exercise,
                 lsExercise, inflight, sweep, pull, srv, reloads, remotePosts,
                 net, pushFails, profile, lsProfile, srvGoal, srvDeviceGoal,
                 srvActivity, advice, resp, exLoad, deleting, removed>>

\* the identity the server resolves for a request sent now
Identity == IF loggedIn THEN AccountId ELSE userId

(* ------------------------ activity on the server ----------------------- *)
\* the calories the exercise sheet is given, and those another device posts
ExerciseKcals == {300}
RemoteKcals == {500}

\* POST /api/activity: INSERT ... ON CONFLICT(user_id, day_iso) DO UPDATE
postActivity(rows, owner, dayIso, kcal) ==
  {a \in rows : ~(a.owner = owner /\ a.day_iso = dayIso)}
    \cup {[owner |-> owner, day_iso |-> dayIso, exercise_kcal |-> kcal]}

\* GET /api/activity/sync: the rows of the identity
ActivitiesOf(owner) == {a \in srvActivity : a.owner = owner}

\* a merge that keeps the local entry of a day that has one
mergeCloudActivityKeep(localExercise, cloudActivities) ==
  localExercise
    \cup {ExerciseEntry(a.day_iso, a.exercise_kcal, "synced") :
            a \in {b \in cloudActivities :
                     \A x \in localExercise : x.day # b.day_iso}}

\* mergeCloudActivity: the entry of every pulled day is replaced
mergeCloudActivity(localExercise, cloudActivities) ==
  {x \in localExercise : \A a \in cloudActivities : a.day_iso # x.day}
    \cup {ExerciseEntry(a.day_iso, a.exercise_kcal, "synced") :
            a \in cloudActivities}

(* --------------------------- the save handler -------------------------- *)
\* the guard without its test of the item count
HasDraft == pendingMeal # NoMeal

\* State.pendingMeal && State.pendingMeal.items.length > 0
HasItems ==
  IF pendingMeal = NoMeal THEN FALSE ELSE Len(pendingMeal.items) > 0

\* saveMealHandler, guard: nothing to save
saveRejected ==
  /\ ~HasItems
  /\ toast' = "noItems"
  /\ UNCHANGED <<now, tz, nextId, loggedIn, userId, link, linkCalls, logs,
                 pendingMeal, editingMealId, uiDay, lsLogs, lsPending,
                 exercise, lsExercise, inflight, sweep, pull, srv, reloads,
                 remotePosts, net, pushFails, profile, lsProfile, srvGoal,
                 srvDeviceGoal, srvActivity, advice, resp, exLoad, deleting,
                 removed>>

\* State.logs assigned before the write is tried
StateLogsEager(r, o) == r.value

\* State.logs after the handler: assigned from newLogs only once saveJSON
\* has returned; when it throws, State.logs keeps its objects, which the
\* cleanup inside saveJSON may have stripped of their images
StateLogsAfter(r, o) == IF r.ok THEN r.value ELSE Ladder(logs, Rungs(o))

\* the id of the record edited, kept whether or not the record is found
EditedIdKept(idx) == editingMealId

\* updated.id: State.editingMealId, or cryptoRandomId() when the record
\* edited is not in today's list
EditedId(idx) == IF idx > 0 THEN editingMealId ELSE LocalId(nextId)

\* the edit always put in front of the list
EditedListForked(arr, idx, updated) == Unshift(arr, updated)

\* today's list with the edit: arr[idx] = updated, or arr.unshift(updated)
EditedList(arr, idx, updated) ==
  IF idx > 0 THEN [arr EXCEPT ![idx] = updated] ELSE Unshift(arr, updated)

\* arr.findIndex(x => x.id === State.editingMealId) over today's list
EditTargetIdx == IndexOfId(logs[todayKey], editingMealId)

\* saveMealHandler with State.editingMealId set
saveEdit(mealType, o, big) ==
  /\ HasItems
  /\ editingMealId # NoId
  /\ LET day == todayKey
         arr == logs[day]
         idx == EditTargetIdx
         updated == [pendingMeal EXCEPT
                       !.id = EditedId(idx),
                       !.mealType = mealType,
                       !.summary = sumMealItems(pendingMeal.items)]
         newLogs == [logs EXCEPT ![day] = EditedList(arr, idx, updated)]
         r == saveJSONLogs(newLogs, o, big, Store)
     IN /\ idx = 0 => nextId <= MaxIds
        /\ IF Succeeds(o)
           THEN /\ toast' = IF idx > 0 THEN "recordUpdated" ELSE "savedAsNew"
                /\ editingMealId' = NoId
                /\ pendingMeal' = NoMeal
                /\ uiDay' = todayKey
           ELSE /\ toast' = SaveErrorToast(ErrorOf(o))
                /\ UNCHANGED <<pendingMeal, editingMealId, uiDay, profile,
                               lsProfile, srvGoal, srvDeviceGoal, srvActivity,
                               advice, resp, exLoad, deleting, removed>>
        /\ nextId' = IF idx = 0 /\ Succeeds(o) THEN nextId + 1 ELSE nextId
        /\ Feasible(o, newLogs, big, Store)
        /\ lsLogs' = r.logs
        /\ lsPending' = r.queue
        /\ lsExercise' = r.exercise
        /\ exercise' = exercise
        /\ logs' = StateLogsAfter(r, o)
  /\ UNCHANGED <<now, tz, loggedIn, userId, link, linkCalls, inflight, sweep,
                 pull, srv, reloads, remotePosts, net, pushFails, profile,
                 lsProfile, srvGoal, srvDeviceGoal, srvActivity, advice, resp,
                 exLoad, deleting, removed>>

\* a draft that stays in State.pendingMeal after the save
DraftKept == pendingMeal

\* State.pendingMeal = null once the write succeeded
DraftAfterSave == NoMeal

\* saveMealHandler with no editingMealId: savePendingMealSync
savePendingMealSync(mealType, o, big) ==
  /\ HasItems
  /\ editingMealId = NoId
  /\ nextId <= MaxIds
  /\ LET day == todayKey
         meal == [pendingMeal EXCEPT
                    !.id = LocalId(nextId),
                    !.mealType = mealType,
                    !.summary = sumMealItems(pendingMeal.items)]
         newLogs == [logs EXCEPT ![day] = Unshift(logs[day], meal)]
         r == saveJSONLogs(newLogs, o, big, Store)
     IN /\ IF Succeeds(o)
           THEN /\ pendingMeal' = DraftAfterSave
                /\ toast' = "savedTo"
                /\ uiDay' = todayKey
                /\ inflight' = inflight \cup {[meal |-> meal, owner |-> Identity]}
           ELSE /\ toast' = SaveErrorToast(ErrorOf(o))
                /\ UNCHANGED <<pendingMeal, uiDay, inflight, profile,
                               lsProfile, srvGoal, srvDeviceGoal, srvActivity,
                               advice, resp, exLoad, deleting, removed>>
        /\ nextId' = IF Succeeds(o) THEN nextId + 1 ELSE nextId
        /\ Feasible(o, newLogs, big, Store)
        /\ lsLogs' = r.logs
        /\ lsPending' = r.queue
        /\ lsExercise' = r.exercise
        /\ exercise' = exercise
        /\ logs' = StateLogsAfter(r, o)
  /\ UNCHANGED <<now, tz, loggedIn, userId, link, linkCalls, editingMealId,
                 sweep, pull, srv, reloads, remotePosts, net, pushFails,
                 profile, lsProfile, srvGoal, srvDeviceGoal, srvActivity,
                 advice, resp, exLoad, deleting, removed>>

\* the save button of the exercise sheet, once saveExerciseToAPI has
\* settled: today's entry is set in State.exercise, then the cache is written
saveExercise(kcal, posted, o, big) ==
  /\ FeasibleQueue(o, big, Store)
  /\ srvActivity' = IF posted
                    THEN postActivity(srvActivity, Identity, UtcDay(Now), kcal)
                    ELSE srvActivity
  /\ LET value == SetEntry(exercise, ExerciseEntry(todayKey, kcal, "manual"))
         r == saveJSONExercise(value, o, big, Store)
     IN /\ exercise' = value
        /\ lsLogs' = r.logs
        /\ lsPending' = r.queue
        /\ lsExercise' = r.exercise
        /\ toast' = IF r.ok THEN toast ELSE SaveErrorToast(r.err)
        /\ uiDay' = IF r.ok THEN todayKey ELSE uiDay
  /\ UNCHANGED <<now, tz, nextId, loggedIn, userId, link, linkCalls, logs,
                 pendingMeal, editingMealId, inflight, sweep, pull, srv,
                 reloads, remotePosts, net, pushFails, profile, lsProfile,
                 srvGoal, srvDeviceGoal, advice, resp, exLoad, deleting,
                 removed>>

\* saveJSON(LS_KEYS.profile, value): cleanOldImages finds no day list in the
\* value, cleanStoredImages still strips the stored logs
saveJSONProfile(value, o, big, st) ==
  [ok |-> Succeeds(o),
   err |-> ErrorOf(o),
   profile |-> value,
   logs |-> Ladder(st.logs, Rungs(o)),
   queue |-> IF Purges(o) /\ big THEN <<>> ELSE st.queue,
   exercise |-> PurgedExercise(o, st.exercise)]

\* the save button of the profile sheet: the targets are computed from the
\* form, State.profile is set, then written; an exception of saveJSON leaves
\* the handler, otherwise syncProfileToCloud posts the profile when logged
\* in (netOk: the request reaches the server)
saveProfile(p, netOk, o, big) ==
  /\ FeasibleQueue(o, big, Store)
  /\ netOk => Succeeds(o) /\ loggedIn
  /\ LET value == WithGoals(p, calcGoals(p))
         r == saveJSONProfile(value, o, big, Store)
     IN /\ profile' = value
        /\ lsProfile' = IF r.ok THEN r.profile ELSE lsProfile
        /\ lsLogs' = r.logs
        /\ lsPending' = r.queue
        /\ lsExercise' = r.exercise
        /\ uiDay' = IF r.ok THEN todayKey ELSE uiDay
        /\ srvGoal' = IF netOk THEN GoalRow(GoalBody(value)) ELSE srvGoal
  /\ UNCHANGED <<now, tz, nextId, loggedIn, userId, link, linkCalls, logs,
                 pendingMeal, editingMealId, toast, exercise, inflight, sweep,
                 pull, srv, reloads, remotePosts, net, pushFails,
                 srvDeviceGoal, srvActivity, advice, resp, exLoad, deleting,
                 removed>>

\* renderIndex writes the advice for the day's sums s and today's exercise
renderAdvice(s, exerciseKcal) ==
  /\ advice' = [goals |-> profile.goals, daySum |-> s,
                exerciseKcal |-> exerciseKcal,
                text |-> buildAdvice(profile, s, exerciseKcal)]
  /\ UNCHANGED <<now, tz, nextId, loggedIn, userId, link, linkCalls, logs,
                 pendingMeal, editingMealId, uiDay, toast, lsLogs, lsPending,
                 exercise, lsExercise, inflight, sweep, pull, srv, reloads,
                 remotePosts, net, pushFails, profile, lsProfile, srvGoal,
                 srvDeviceGoal, srvActivity, resp, exLoad, deleting, removed>>

saveMealHandler ==
  \/ saveRejected
  \/ \E mt \in MealTypes, o \in StorageOutcomes, big \in BOOLEAN :
       saveEdit(mt, o, big)
  \/ \E mt \in MealTypes, o \in StorageOutcomes, big \in BOOLEAN :
       savePendingMealSync(mt, o, big)

(* ------------------------- push and retry queue ------------------------ *)
OrZero(x) == IF x = Undef \/ x = NaN THEN 0 ELSE x

\* the item of the POST body
ItemBody(item) ==
  [name |-> item.name,
   portion_g |-> IF item.portion_g = Undef \/ item.portion_g = 0
                 THEN DefaultPortion ELSE item.portion_g,
   kcal |-> OrZero(item.kcal),
   protein_g |-> OrZero(item.protein_g)]

\* the body syncMealToBackend posts
MealBody(meal) ==
  [meal_type |-> meal.mealType,
   eaten_at |-> meal.createdAt,
   items |-> [i \in 1 .. Len(meal.items) |-> ItemBody(meal.items[i])],
   totals |-> [kcal |-> meal.summary.kcal, p |-> meal.summary.p,
               protein_g |-> Undef]]

ValidMealTypes == {"breakfast", "lunch", "dinner", "snack"}

\* POST /api/meals answers 2xx
ServerAccepts(body) == body.meal_type \in ValidMealTypes

\* the mark of a row that was deleted: srv keeps the row, owned by nobody, so
\* that the AUTOINCREMENT sequence of the meals table is the length of srv
Deleted == <<"deleted", 0>>

\* an id one above the number of rows that are left
NextRowIdLive ==
  Cardinality({i \in 1 .. Len(srv) : srv[i].owner # Deleted}) + 1

\* the id the INSERT gives the row (result.meta.last_row_id)
NextRowId == Len(srv) + 1

\* the row INSERT INTO meals adds; src is a history field, the local id of
\* the meal the row was posted for
InsertMeal(body, owner, src) ==
  Append(srv, [id |-> NextRowId, owner |-> owner, meal_type |-> body.meal_type,
               eaten_at |-> body.eaten_at, items |-> body.items,
               totals |-> body.totals, src |-> src])

\* a server that still takes rows: once the network is up no POST is refused
ServerHasRoom == net = "up" \/ Len(srv) < MaxRows

FailedOnce(id) == [pushFails EXCEPT ![id[2]] = @ + 1]

\* an entry that counts the failed first push as an attempt
QueueEntryCounted(meal) ==
  [id |-> meal.id, cloudId |-> meal.cloudId, createdAt |-> meal.createdAt,
   mealType |-> meal.mealType, img |-> meal.img, items |-> meal.items,
   summary |-> meal.summary, synced |-> meal.synced, syncAttempts |-> 1]

\* { ...meal, syncAttempts: 0 }
QueueEntry(meal) ==
  [id |-> meal.id, cloudId |-> meal.cloudId, createdAt |-> meal.createdAt,
   mealType |-> meal.mealType, img |-> meal.img, items |-> meal.items,
   summary |-> meal.summary, synced |-> meal.synced, syncAttempts |-> 0]

\* markMealForSync: the stored keys afterwards, and whether saveJSON threw
markMealForSync(meal, o, big, st) ==
  saveJSONQueue(Append(st.queue, QueueEntry(meal)), o, big, st)

\* syncMealToBackend of a newly saved meal: the POST answered 2xx
pushOk(p) ==
  /\ p \in inflight
  /\ ServerAccepts(MealBody(p.meal))
  /\ ServerHasRoom
  /\ srv' = InsertMeal(MealBody(p.meal), p.owner, p.meal.id)
  /\ inflight' = inflight \ {p}
  /\ UNCHANGED <<now, tz, nextId, loggedIn, userId, link, linkCalls, logs,
                 pendingMeal, editingMealId, uiDay, toast, lsLogs, lsPending,
                 exercise, lsExercise, sweep, pull, reloads, remotePosts, net,
                 pushFails, profile, lsProfile, srvGoal, srvDeviceGoal,
                 srvActivity, advice, resp, exLoad, deleting, removed>>

\* syncMealToBackend of a newly saved meal: the POST failed
pushFail(p, o, big) ==
  /\ p \in inflight
  /\ net = "flaky"
  /\ FeasibleQueue(o, big, Store)
  /\ LET r == markMealForSync(p.meal, o, big, Store)
     IN /\ lsLogs' = r.logs
        /\ lsPending' = r.queue
        /\ lsExercise' = r.exercise
        /\ exercise' = exercise
  /\ inflight' = inflight \ {p}
  /\ pushFails' = FailedOnce(p.meal.id)
  /\ UNCHANGED <<now, tz, nextId, loggedIn, userId, link, linkCalls, logs,
                 pendingMeal, editingMealId, uiDay, toast, sweep, pull, srv,
                 reloads, remotePosts, net, profile, lsProfile, srvGoal,
                 srvDeviceGoal, srvActivity, advice, resp, exLoad, deleting,
                 removed>>

\* one iteration of the loop of syncPendingMeals: the POST of entry i is
\* answered (netOk) or fails; after the last entry the loop's result is
\* written with saveJSON('fs_pending_sync', stillPending). sweep.failed is a
\* history field, the entries of this sweep whose POST failed
sweepStep(netOk, o1, big1, o2, big2) ==
  /\ sweep.active
  /\ LET entry == sweep.pending[sweep.i]
         last == sweep.i = Len(sweep.pending)
         r1 == markMealForSync(entry, o1, big1, Store)
         threw == ~netOk /\ ~r1.ok
         st1 == IF netOk THEN Store ELSE [logs |-> r1.logs, queue |-> r1.queue,
                                     exercise |-> r1.exercise]
         bumped == [entry EXCEPT !.syncAttempts = @ + 1]
         still1 == IF threw /\ bumped.syncAttempts < MaxSyncAttempts
                   THEN Append(sweep.still, bumped) ELSE sweep.still
         r2 == saveJSONQueue(still1, o2, big2, st1)
         st2 == IF last THEN [logs |-> r2.logs, queue |-> r2.queue,
                             exercise |-> r2.exercise] ELSE st1
     IN /\ IF netOk
           THEN /\ ServerAccepts(MealBody(entry))
                /\ ServerHasRoom
                /\ o1 = "ok" /\ big1 = FALSE
                /\ srv' = InsertMeal(MealBody(entry), Identity, entry.id)
                /\ pushFails' = pushFails
           ELSE /\ net = "flaky"
                /\ FeasibleQueue(o1, big1, Store)
                /\ srv' = srv
                /\ pushFails' = FailedOnce(entry.id)
        /\ IF last THEN FeasibleQueue(o2, big2, st1)
           ELSE o2 = "ok" /\ big2 = FALSE
        /\ lsLogs' = st2.logs
        /\ lsPending' = st2.queue
        /\ lsExercise' = st2.exercise
        /\ exercise' = exercise
        /\ sweep' = IF last THEN NoSweep
                    ELSE [sweep EXCEPT
                            !.i = @ + 1, !.still = still1,
                            !.failed = IF netOk THEN @ ELSE @ \cup {sweep.i}]
  /\ UNCHANGED <<now, tz, nextId, loggedIn, userId, link, linkCalls, logs,
                 pendingMeal, editingMealId, uiDay, toast, inflight, pull,
                 reloads, remotePosts, net, profile, lsProfile, srvGoal,
                 srvDeviceGoal, srvActivity, advice, resp, exLoad, deleting,
                 removed>>

getUserIdFresh(stored) == DeviceId(Now)

\* getUserId: the stored id, generated and stored when there is none
getUserId(stored) == IF stored = NoUser THEN DeviceId(Now) ELSE stored

\* the page is loaded again: State is rebuilt from localStorage, initIndex
\* starts syncPendingMeals and, when logged in, syncFromCloud
reload ==
  /\ net = "up" \/ reloads < MaxReloads
  /\ reloads' = IF net = "up" THEN reloads ELSE reloads + 1
  /\ logs' = lsLogs
  /\ pendingMeal' = NoMeal
  /\ editingMealId' = NoId
  /\ uiDay' = todayKey
  /\ toast' = "none"
  /\ inflight' = {}
  /\ sweep' = IF lsPending = <<>> THEN NoSweep
              ELSE [active |-> TRUE, pending |-> lsPending, i |-> 1,
                    still |-> <<>>, failed |-> {}]
  /\ pull' = IF loggedIn THEN "fetching" ELSE "idle"
  /\ exercise' = lsExercise
  /\ userId' = getUserId(userId)
  /\ link' = "idle"
  /\ profile' = IF lsProfile = NoProfile THEN defaultProfile ELSE lsProfile
  /\ exLoad' = "fetching"
  /\ deleting' = NoDelete
  /\ UNCHANGED <<now, tz, nextId, loggedIn, linkCalls, lsLogs, lsPending,
                 lsExercise, srv, remotePosts, net, pushFails, lsProfile,
                 srvGoal, srvDeviceGoal, srvActivity, advice, resp, removed>>

(* ------------------------------- identity ------------------------------ *)
NeedsLinkAlways == userId # NoUser

\* legacyUserId && legacyUserId !== data.user.id
NeedsLink == userId # NoUser /\ userId # AccountId

\* the sign-in callback, the auth request answered 2xx: token and user are
\* set; linkLegacyAccount is awaited when there is a device id to link,
\* otherwise syncFromCloud starts at once
login ==
  /\ ~loggedIn
  /\ link = "idle"
  /\ loggedIn' = TRUE
  /\ IF NeedsLink
     THEN link' = "waiting" /\ linkCalls' = 1 /\ pull' = pull
     ELSE link' = "idle" /\ linkCalls' = 0 /\ pull' = "fetching"
  /\ UNCHANGED <<now, tz, nextId, userId, logs, pendingMeal, editingMealId,
                 uiDay, toast, lsLogs, lsPending, exercise, lsExercise,
                 inflight, sweep, srv, reloads, remotePosts, net, pushFails,
                 profile, lsProfile, srvGoal, srvDeviceGoal, srvActivity,
                 advice, resp, exLoad, deleting, removed>>

\* the request linkLegacyAccount sends: bearer token, X-User-Id, no body
LinkRequest(legacyUserId) ==
  [bearer |-> TRUE, xUserId |-> legacyUserId,
   body |-> [present |-> FALSE, legacy_user_id |-> NoUser]]

\* POST /api/auth/link-legacy: the status it answers with
LinkStatus(req) ==
  IF ~req.bearer THEN 401
  ELSE IF ~req.body.present THEN 500
  ELSE IF req.body.legacy_user_id = NoUser THEN 400
  ELSE 200

\* UPDATE meals SET user_id = ? WHERE user_id = ?
Migrate(rows, from, to) ==
  [i \in 1 .. Len(rows) |->
     IF rows[i].owner = from THEN [rows[i] EXCEPT !.owner = to] ELSE rows[i]]

\* linkLegacyAccount settles (res.ok or not, or the fetch rejected) and the
\* sign-in callback goes on: syncFromCloud starts if still signed in
linkLegacyDone(resOk) ==
  /\ link = "waiting"
  /\ link' = "idle"
  /\ userId' = IF resOk /\ loggedIn THEN AccountId ELSE userId
  /\ srv' = IF resOk THEN Migrate(srv, userId, AccountId) ELSE srv
  /\ pull' = IF loggedIn THEN "fetching" ELSE pull
  /\ UNCHANGED <<now, tz, nextId, loggedIn, linkCalls, logs, pendingMeal,
                 editingMealId, uiDay, toast, lsLogs, lsPending, exercise,
                 lsExercise, inflight, sweep, reloads, remotePosts, net,
                 pushFails, profile, lsProfile, srvGoal, srvDeviceGoal,
                 srvActivity, advice, resp, exLoad, deleting, removed>>

\* the answer of this repository's server to the request the client sends
linkLegacyServed == linkLegacyDone(LinkStatus(LinkRequest(userId)) = 200)

logout ==
  /\ loggedIn
  /\ loggedIn' = FALSE
  /\ UNCHANGED <<now, tz, nextId, userId, link, linkCalls, logs, pendingMeal,
                 editingMealId, uiDay, toast, lsLogs, lsPending, exercise,
                 lsExercise, inflight, sweep, pull, srv, reloads, remotePosts,
                 net, pushFails, profile, lsProfile, srvGoal, srvDeviceGoal,
                 srvActivity, advice, resp, exLoad, deleting, removed>>

(* --------------------------------- pull -------------------------------- *)
\* the record mergeCloudMeals builds from a remote row
CloudItem(item) ==
  [name |-> item.name, portion_g |-> item.portion_g, kcal |-> item.kcal,
   p |-> Undef, protein_g |-> item.protein_g]

LocalMealOf(row) ==
  [id |-> CloudLocalId(row.id),
   cloudId |-> row.id,
   mealType |-> row.meal_type,
   createdAt |-> row.eaten_at,
   items |-> [i \in 1 .. Len(row.items) |-> CloudItem(row.items[i])],
   summary |-> [kcal |-> OrZero(row.totals.kcal),
                p |-> OrZero(row.totals.protein_g)],
   synced |-> TRUE]

\* the findIndex of mergeCloudMeals
MatchesRow(m, row) ==
  \/ m.cloudId = row.id
  \/ /\ Abs(m.createdAt - row.eaten_at) < WindowMs
     /\ m.mealType = row.meal_type

ExistingIdx(lg, row) ==
  LET arr == lg[UtcDay(row.eaten_at)]
  IN FirstOf({i \in 1 .. Len(arr) : MatchesRow(arr[i], row)})

\* { ...existing, ...localMeal }: imageDataUrl is the only field kept
Spread(existing, localMeal) ==
  [id |-> localMeal.id, cloudId |-> localMeal.cloudId,
   mealType |-> localMeal.mealType, createdAt |-> localMeal.createdAt,
   items |-> localMeal.items, summary |-> localMeal.summary,
   synced |-> localMeal.synced, img |-> existing.img]

\* the body of the loop of mergeCloudMeals
mergeOne(lg, row) ==
  LET dayKey == UtcDay(row.eaten_at)
      existingIdx == ExistingIdx(lg, row)
      localMeal == LocalMealOf(row)
  IN IF existingIdx > 0
     THEN [lg EXCEPT ![dayKey][existingIdx] = Spread(@, localMeal)]
     ELSE [lg EXCEPT ![dayKey] = Append(@, Spread([img |-> FALSE], localMeal))]

\* the logs after the first k rows
RECURSIVE mergeRows(_, _, _)
mergeRows(lg, rows, k) ==
  IF k = 0 THEN lg ELSE mergeOne(mergeRows(lg, rows, k - 1), rows[k])

\* Array.prototype.sort by createdAt, ascending, stable
RECURSIVE SortByCreatedAt(_)
SortByCreatedAt(s) ==
  IF Len(s) <= 1 THEN s
  ELSE LET rest == SortByCreatedAt(SubSeq(s, 1, Len(s) - 1))
           x == s[Len(s)]
           pos == Cardinality({i \in 1 .. Len(rest) :
                                 rest[i].createdAt <= x.createdAt})
       IN SubSeq(rest, 1, pos) \o <<x>> \o SubSeq(rest, pos + 1, Len(rest))

\* State.logs as mergeCloudMeals leaves it before its saveJSON
mergeCloudMeals(lg, rows) ==
  LET merged == mergeRows(lg, rows, Len(rows))
  IN [d \in DOMAIN merged |-> SortByCreatedAt(merged[d])]

\* GET /api/meals/sync: the rows of the identity, ORDER BY eaten_at DESC
\* (rows with equal eaten_at in either order)
RowsOf(owner) == {i \in 1 .. Len(srv) : srv[i].owner = owner}

SyncResults(owner) ==
  LET idx == RowsOf(owner)
      n == Cardinality(idx)
  IN {[k \in 1 .. n |-> srv[f[k]]] :
        f \in {g \in [1 .. n -> idx] :
                 /\ \A a, b \in 1 .. n : a # b => g[a] # g[b]
                 /\ \A a \in 1 .. n : a < n =>
                      srv[g[a]].eaten_at >= srv[g[a + 1]].eaten_at}}

\* what a saveJSON that is not reached leaves behind
NotWritten(st) ==
  [ok |-> TRUE, err |-> "none", logs |-> st.logs, queue |-> st.queue,
   exercise |-> st.exercise]

\* syncFromCloud, the three responses arrived: the profile, then
\* mergeCloudMeals with its write (o, big), then mergeCloudActivity with its
\* write (o2, big2), then renderIndex and the toast; an exception of a write
\* ends it without either. The write of a merged profile is taken to succeed.
syncFromCloud(rows, o, big, o2, big2) ==
  /\ pull = "fetching"
  /\ rows \in SyncResults(AccountId)
  /\ pull' = "idle"
  /\ LET prof == mergeProfile(ProfileResponse, profile)
         merged == mergeCloudMeals(logs, rows)
         r1 == IF rows = <<>> THEN NotWritten(Store)
               ELSE saveJSONLogs(merged, o, big, Store)
         st1 == [logs |-> r1.logs, queue |-> r1.queue,
                 exercise |-> r1.exercise]
         acts == ActivitiesOf(AccountId)
         runs2 == (rows = <<>> \/ Succeeds(o)) /\ acts # {}
         mergedEx == mergeCloudActivity(exercise, acts)
         r2 == IF runs2 THEN saveJSONExercise(mergedEx, o2, big2, st1)
               ELSE NotWritten(st1)
     IN /\ IF rows = <<>> THEN o = "ok" /\ big = FALSE
           ELSE Feasible(o, merged, big, Store)
        /\ IF runs2 THEN FeasibleQueue(o2, big2, st1)
           ELSE o2 = "ok" /\ big2 = FALSE
        /\ profile' = prof
        /\ lsProfile' = IF prof = profile THEN lsProfile ELSE prof
        /\ logs' = IF rows = <<>> THEN logs ELSE r1.value
        /\ exercise' = IF runs2 THEN mergedEx ELSE exercise
        /\ lsLogs' = r2.logs
        /\ lsPending' = r2.queue
        /\ lsExercise' = r2.exercise
        /\ uiDay' = IF r1.ok /\ r2.ok THEN todayKey ELSE uiDay
        /\ toast' = IF r1.ok /\ r2.ok THEN "synced" ELSE toast
  /\ UNCHANGED <<now, tz, nextId, loggedIn, userId, link, linkCalls,
                 pendingMeal, editingMealId, inflight, sweep, srv, reloads,
                 remotePosts, net, pushFails, srvGoal, srvDeviceGoal,
                 srvActivity, advice, resp, exLoad, deleting, removed>>

\* the same when the write of the activity cache, if any, succeeds
pullOk(rows, o, big) == syncFromCloud(rows, o, big, "ok", FALSE)

\* syncFromCloud: a fetch rejected
pullFail ==
  /\ pull = "fetching"
  /\ pull' = "idle"
  /\ UNCHANGED <<now, tz, nextId, loggedIn, userId, link, linkCalls, logs,
                 pendingMeal, editingMealId, uiDay, toast, lsLogs, lsPending,
                 exercise, lsExercise, inflight, sweep, srv, reloads,
                 remotePosts, net, pushFails, profile, lsProfile, srvGoal,
                 srvDeviceGoal, srvActivity, advice, resp, exLoad, deleting,
                 removed>>

\* the three fetches of syncFromCloud: each is answered or rejects
FetchFates ==
  [profile : {"ok", "rejected"}, meals : {"ok", "rejected"},
   activity : {"ok", "rejected"}]

\* a pull that goes on with the answers it has
AnyRejectedNever(fates) == FALSE

\* await Promise.all([...]) throws as soon as one fetch rejects
AnyRejected(fates) ==
  \E k \in {"profile", "meals", "activity"} : fates[k] = "rejected"

\* syncFromCloud, the three fetches settled
pullSettled(fates, rows, o, big, o2, big2) ==
  IF AnyRejected(fates)
  THEN o = "ok" /\ big = FALSE /\ o2 = "ok" /\ big2 = FALSE /\ pullFail
  ELSE syncFromCloud(rows, o, big, o2, big2)

\* another device of the account posts a meal it saved at instant i
remotePost(mealType, i) ==
  /\ remotePosts < MaxRemotePosts
  /\ ServerHasRoom
  /\ i \in 1 .. now
  /\ remotePosts' = remotePosts + 1
  /\ srv' = InsertMeal(
       MealBody([mealType |-> mealType, createdAt |-> Instant(i),
                 items |-> <<Egg>>, summary |-> sumMealItems(<<Egg>>)]),
       AccountId, NoId)
  /\ UNCHANGED <<now, tz, nextId, loggedIn, userId, link, linkCalls, logs,
                 pendingMeal, editingMealId, uiDay, toast, lsLogs, lsPending,
                 exercise, lsExercise, inflight, sweep, pull, reloads, net,
                 pushFails, profile, lsProfile, srvGoal, srvDeviceGoal,
                 srvActivity, advice, resp, exLoad, deleting, removed>>

\* another device of the account saves its exercise: the server files it
\* under its own (UTC) day, the body carrying no day
remoteActivity(kcal) ==
  /\ srvActivity' = postActivity(srvActivity, AccountId, UtcDay(Now), kcal)
  /\ srvActivity' # srvActivity
  /\ UNCHANGED <<now, tz, nextId, loggedIn, userId, link, linkCalls, logs,
                 pendingMeal, editingMealId, uiDay, toast, lsLogs, lsPending,
                 exercise, lsExercise, inflight, sweep, pull, srv, reloads,
                 remotePosts, net, pushFails, profile, lsProfile, srvGoal,
                 srvDeviceGoal, advice, resp, exLoad, deleting, removed>>

\* GET /api/activity?day=: the row of the identity for that day, if any
ActivityOf(owner, day) ==
  {a \in srvActivity : a.owner = owner /\ a.day_iso = day}

\* the loadExerciseFromAPI of initIndex settles: a row found for today is
\* put into State.exercise, which is not written
loadExerciseDone(netOk) ==
  /\ exLoad = "fetching"
  /\ exLoad' = "idle"
  /\ LET found == IF netOk THEN ActivityOf(Identity, todayKey) ELSE {}
     IN IF found = {} THEN UNCHANGED <<exercise, uiDay>>
        ELSE /\ exercise' =
                  LET a == CHOOSE x \in found : TRUE
                  IN SetEntry(exercise,
                              ExerciseEntry(todayKey, a.exercise_kcal,
                                            "loaded"))
             /\ uiDay' = todayKey
  /\ UNCHANGED <<now, tz, nextId, loggedIn, userId, link, linkCalls, logs,
                 pendingMeal, editingMealId, toast, lsLogs, lsPending,
                 lsExercise, inflight, sweep, pull, srv, reloads, remotePosts,
                 net, pushFails, profile, lsProfile, srvGoal, srvDeviceGoal,
                 srvActivity, advice, resp, deleting, removed>>

\* the network recovers: from now on no request fails
heal ==
  /\ net = "flaky"
  /\ net' = "up"
  /\ UNCHANGED <<now, tz, nextId, loggedIn, userId, link, linkCalls, logs,
                 pendingMeal, editingMealId, uiDay, toast, lsLogs, lsPending,
                 exercise, lsExercise, inflight, sweep, pull, srv, reloads,
                 remotePosts, pushFails, profile, lsProfile, srvGoal,
                 srvDeviceGoal, srvActivity, advice, resp, exLoad, deleting,
                 removed>>

(* ------------------------------ the server ----------------------------- *)
\* the identity of a request without token and header
Demo == <<"demo", 0>>

\* an Authorization header: none, or a bearer token with its subject that
\* jwtVerify accepts or not
NoToken == [sub |-> NoUser, valid |-> FALSE]
Token(sub, valid) == [sub |-> sub, valid |-> valid]

\* verifyJwt: payload.sub, or null
verifyJwt(token) == IF token.valid THEN token.sub ELSE NoUser

\* a middleware that looks at X-User-Id first
ResolveUserHeaderFirst(req) ==
  IF req.xUserId # NoUser THEN req.xUserId
  ELSE IF verifyJwt(req.bearer) # NoUser THEN verifyJwt(req.bearer)
  ELSE Demo

\* the /api/* middleware: the subject of a token that verifies, otherwise
\* the X-User-Id header, otherwise 'demo'
ResolveUser(req) ==
  LET jwtUserId == IF req.bearer = NoToken THEN NoUser
                   ELSE verifyJwt(req.bearer)
      fromJwt == IF jwtUserId # NoUser THEN jwtUserId ELSE Demo
  IN IF fromJwt = Demo
     THEN IF req.xUserId # NoUser THEN req.xUserId ELSE Demo
     ELSE fromJwt

\* getAuthHeaders
getAuthHeaders ==
  [xUserId |-> getUserId(userId),
   bearer |-> IF loggedIn THEN Token(AccountId, TRUE) ELSE NoToken]

\* the legacy_user_id of a link request's body: missing, or the device id
LegacyIds == {NoUser, DeviceId(Instant(1))}

\* the headers of the requests sent to the server directly
Requests ==
  [bearer : {NoToken, Token(AccountId, TRUE), Token(AccountId, FALSE)},
   xUserId : {NoUser, DeviceId(Instant(1)), AccountId}]

\* the limit of a sync request: the client's 500, or 1
SyncLimits == {1, 500}

\* GET /api/meals/sync?limit=: ORDER BY eaten_at DESC LIMIT ?
SyncResponse(owner, limit) ==
  {SubSeq(r, 1, Min(limit, Len(r))) : r \in SyncResults(owner)}

\* GET /api/meals?day=: the rows of the identity eaten on that day,
\* ORDER BY eaten_at ASC
ListResponse(owner, day) ==
  LET idx == {i \in RowsOf(owner) : UtcDay(srv[i].eaten_at) = day}
      n == Cardinality(idx)
  IN {[k \in 1 .. n |-> srv[f[k]]] :
        f \in {g \in [1 .. n -> idx] :
                 /\ \A a, b \in 1 .. n : a # b => g[a] # g[b]
                 /\ \A a \in 1 .. n : a < n =>
                      srv[g[a]].eaten_at <= srv[g[a + 1]].eaten_at}}

\* a DELETE that does not look at the owner
DeleteMealAny(rows, mealId, owner) ==
  [i \in 1 .. Len(rows) |->
     IF rows[i].id = mealId THEN [rows[i] EXCEPT !.owner = Deleted]
     ELSE rows[i]]

\* DELETE FROM meals WHERE id = ? AND user_id = ?
DeleteMeal(rows, mealId, owner) ==
  [i \in 1 .. Len(rows) |->
     IF rows[i].id = mealId /\ rows[i].owner = owner
     THEN [rows[i] EXCEPT !.owner = Deleted]
     ELSE rows[i]]

\* POST /api/meals with a valid body, from any client
srvPost(req, i) ==
  /\ Len(srv) < MaxRows
  /\ LET body == MealBody([mealType |-> "lunch", createdAt |-> Instant(i),
                           items |-> <<Egg>>,
                           summary |-> sumMealItems(<<Egg>>)])
     IN /\ ServerAccepts(body)
        /\ srv' = InsertMeal(body, ResolveUser(req), NoId)
  /\ resp' = [kind |-> "post", headers |-> req,
              userId |-> ResolveUser(req), id |-> srv'[Len(srv')].id]
  /\ UNCHANGED <<now, tz, nextId, loggedIn, userId, link, linkCalls, logs,
                 pendingMeal, editingMealId, uiDay, toast, lsLogs, lsPending,
                 exercise, lsExercise, inflight, sweep, pull, reloads,
                 remotePosts, net, pushFails, profile, lsProfile, srvGoal,
                 srvDeviceGoal, srvActivity, advice, exLoad, deleting,
                 removed>>

\* GET /api/meals?day=
srvList(req, day) ==
  /\ \E meals \in ListResponse(ResolveUser(req), day) :
       resp' = [kind |-> "list", headers |-> req,
              userId |-> ResolveUser(req), day |-> day, meals |-> meals]
  /\ UNCHANGED <<now, tz, nextId, loggedIn, userId, link, linkCalls, logs,
                 pendingMeal, editingMealId, uiDay, toast, lsLogs, lsPending,
                 exercise, lsExercise, inflight, sweep, pull, srv, reloads,
                 remotePosts, net, pushFails, profile, lsProfile, srvGoal,
                 srvDeviceGoal, srvActivity, advice, exLoad, deleting,
                 removed>>

\* GET /api/meals/sync?limit=
srvSync(req, limit) ==
  /\ \E meals \in SyncResponse(ResolveUser(req), limit) :
       resp' = [kind |-> "sync", headers |-> req,
              userId |-> ResolveUser(req), limit |-> limit,
              meals |-> meals]
  /\ UNCHANGED <<now, tz, nextId, loggedIn, userId, link, linkCalls, logs,
                 pendingMeal, editingMealId, uiDay, toast, lsLogs, lsPending,
                 exercise, lsExercise, inflight, sweep, pull, srv, reloads,
                 remotePosts, net, pushFails, profile, lsProfile, srvGoal,
                 srvDeviceGoal, srvActivity, advice, exLoad, deleting,
                 removed>>

\* DELETE /api/meals/:id
srvDelete(req, mealId) ==
  /\ srv' = DeleteMeal(srv, mealId, ResolveUser(req))
  /\ resp' = [kind |-> "delete", headers |-> req,
              userId |-> ResolveUser(req), id |-> mealId,
              success |-> TRUE]
  /\ UNCHANGED <<now, tz, nextId, loggedIn, userId, link, linkCalls, logs,
                 pendingMeal, editingMealId, uiDay, toast, lsLogs, lsPending,
                 exercise, lsExercise, inflight, sweep, pull, reloads,
                 remotePosts, net, pushFails, profile, lsProfile, srvGoal,
                 srvDeviceGoal, srvActivity, advice, exLoad, deleting,
                 removed>>

(* -------------------- goals, activity and the link --------------------- *)
\* the row of user_goals of an identity; the rows of the account and of the
\* device id are kept
GoalOf(owner) ==
  IF owner = AccountId THEN srvGoal
  ELSE IF owner = DeviceId(Instant(1)) THEN srvDeviceGoal
  ELSE NoGoal

\* POST /api/user/goal from any client: INSERT OR REPLACE INTO user_goals
srvPostGoal(req, p) ==
  /\ ResolveUser(req) \in {AccountId, DeviceId(Instant(1))}
  /\ srvGoal' = IF ResolveUser(req) = AccountId
                THEN GoalRow(GoalBody(p)) ELSE srvGoal
  /\ srvDeviceGoal' = IF ResolveUser(req) = AccountId
                      THEN srvDeviceGoal ELSE GoalRow(GoalBody(p))
  /\ resp' = [kind |-> "goal", headers |-> req, userId |-> ResolveUser(req)]
  /\ UNCHANGED <<now, tz, nextId, loggedIn, userId, link, linkCalls, logs,
                 pendingMeal, editingMealId, uiDay, toast, lsLogs, lsPending,
                 exercise, lsExercise, inflight, sweep, pull, srv, reloads,
                 remotePosts, net, pushFails, profile, lsProfile, srvActivity,
                 advice, exLoad, deleting, removed>>

\* POST /api/activity from any client
srvPostActivity(req, day, kcal) ==
  /\ srvActivity' = postActivity(srvActivity, ResolveUser(req), day, kcal)
  /\ resp' = [kind |-> "activity", headers |-> req,
              userId |-> ResolveUser(req), day |-> day]
  /\ UNCHANGED <<now, tz, nextId, loggedIn, userId, link, linkCalls, logs,
                 pendingMeal, editingMealId, uiDay, toast, lsLogs, lsPending,
                 exercise, lsExercise, inflight, sweep, pull, srv, reloads,
                 remotePosts, net, pushFails, profile, lsProfile, srvGoal,
                 srvDeviceGoal, advice, exLoad, deleting, removed>>

\* UPDATE user_goals SET user_id = ? WHERE user_id = ? fails on the PRIMARY
\* KEY when both identities own a row
GoalsConflict(from, to) == GoalOf(from) # NoGoal /\ GoalOf(to) # NoGoal

\* UPDATE daily_activity SET user_id = ? WHERE user_id = ? fails on
\* UNIQUE(user_id, day_iso) when both identities own a row of one day
ActivityConflict(rows, from, to) ==
  \E a, b \in rows : a.owner = from /\ b.owner = to /\ a.day_iso = b.day_iso

MigrateActivity(rows, from, to) ==
  {IF a.owner = from THEN [a EXCEPT !.owner = to] ELSE a : a \in rows}

\* POST /api/auth/link-legacy with a JSON body, from any client: four
\* UPDATE statements one after the other, each committed on its own; a
\* statement that fails throws, the ones before it stay, the ones after it
\* do not run, and the request is answered 500. (The UPDATE of users has no
\* constraint to fail on.)
srvLinkLegacy(req, legacy) ==
  LET to == ResolveUser(req)
      status == LinkStatus([bearer |-> verifyJwt(req.bearer) # NoUser,
                            xUserId |-> req.xUserId,
                            body |-> [present |-> TRUE,
                                      legacy_user_id |-> legacy]])
      runs == status = 200
      goalsFail == runs /\ GoalsConflict(legacy, to)
      activityFail == runs /\ ~goalsFail
                        /\ ActivityConflict(srvActivity, legacy, to)
  IN /\ srv' = IF runs THEN Migrate(srv, legacy, to) ELSE srv
     /\ srvGoal' = IF runs /\ ~goalsFail /\ GoalOf(legacy) # NoGoal
                   THEN GoalOf(legacy) ELSE srvGoal
     /\ srvDeviceGoal' = IF runs /\ ~goalsFail THEN NoGoal ELSE srvDeviceGoal
     /\ srvActivity' = IF runs /\ ~goalsFail /\ ~activityFail
                       THEN MigrateActivity(srvActivity, legacy, to)
                       ELSE srvActivity
     /\ resp' = [kind |-> "link", headers |-> req, userId |-> to,
                 legacy |-> legacy,
                 status |-> IF goalsFail \/ activityFail THEN 500 ELSE status]
     /\ UNCHANGED <<now, tz, nextId, loggedIn, userId, link, linkCalls, logs,
                    pendingMeal, editingMealId, uiDay, toast, lsLogs,
                    lsPending, exercise, lsExercise, inflight, sweep, pull,
                    reloads, remotePosts, net, pushFails, profile, lsProfile,
                    advice, exLoad, deleting, removed>>

(* --------------------------- the delete handler ------------------------ *)
\* arr.splice(idx, 1)
Splice(arr, idx) ==
  [i \in 1 .. Len(arr) - 1 |-> IF i < idx THEN arr[i] ELSE arr[i + 1]]

\* the end of the delete handler: the record leaves arr, the copy of the
\* day's list made before the await; newLogs is { ...State.logs, [day]: arr },
\* written and then assigned; an exception of saveJSON is caught; renderIndex
\* follows in either case
deleteLocally(day, snapshot, idx, o, big) ==
  LET arr == Splice(snapshot, idx)
      newLogs == [logs EXCEPT ![day] = arr]
      r == saveJSONLogs(newLogs, o, big, Store)
  IN /\ Feasible(o, newLogs, big, Store)
     /\ lsLogs' = r.logs
     /\ lsPending' = r.queue
     /\ lsExercise' = r.exercise
     /\ logs' = StateLogsAfter(r, o)
     /\ toast' = IF r.ok THEN "deleted" ELSE "deleteFailed"
     /\ uiDay' = todayKey
     /\ removed' = IF r.ok THEN removed \cup {snapshot[idx]} ELSE removed

\* the delete button of a rendered record: a record with a cloudId is first
\* deleted on the server when logged in, and the handler waits for the
\* answer; any other record is deleted at once. One delete waits at a time.
deleteMeal(id, o, big) ==
  /\ ~deleting.active
  /\ IndexOfId(logs[uiDay], id) > 0
  /\ LET arr == logs[uiDay]
         idx == IndexOfId(arr, id)
         meal == arr[idx]
     IN IF meal.cloudId # NoCloudId /\ loggedIn
        THEN /\ o = "ok" /\ big = FALSE
             /\ deleting' = [active |-> TRUE, day |-> uiDay, arr |-> arr,
                             idx |-> idx, cloudId |-> meal.cloudId,
                             owner |-> Identity]
             /\ UNCHANGED <<logs, uiDay, toast, lsLogs, lsPending, lsExercise,
                            srvDeviceGoal, removed>>
        ELSE /\ deleteLocally(uiDay, arr, idx, o, big)
             /\ deleting' = deleting
  /\ UNCHANGED <<now, tz, nextId, loggedIn, userId, link, linkCalls,
                 pendingMeal, editingMealId, exercise, inflight, sweep, pull,
                 srv, reloads, remotePosts, net, pushFails, profile,
                 lsProfile, srvGoal, srvDeviceGoal, srvActivity, advice, resp,
                 exLoad>>

\* the DELETE request settled: answered by the server (served), or failed on
\* the way or with an error status; the local delete follows in either case
deleteSettled(served, o, big) ==
  /\ deleting.active
  /\ ~served => net = "flaky"
  /\ srv' = IF served THEN DeleteMeal(srv, deleting.cloudId, deleting.owner)
            ELSE srv
  /\ deleteLocally(deleting.day, deleting.arr, deleting.idx, o, big)
  /\ deleting' = NoDelete
  /\ UNCHANGED <<now, tz, nextId, loggedIn, userId, link, linkCalls,
                 pendingMeal, editingMealId, exercise, inflight, sweep, pull,
                 reloads, remotePosts, net, pushFails, profile, lsProfile,
                 srvGoal, srvDeviceGoal, srvActivity, advice, resp, exLoad>>

(* ------------------------------ behaviours ----------------------------- *)
Next ==
  \/ Tick
  \/ \E items \in AnalysisResults : onAnalyze(items)
  \/ \E i \in 1 .. MaxIds, k \in {"u", "cloud"} : viewMeal(<<k, i>>)
  \/ \E k \in 1 .. 2 : deleteItem(k)
  \/ saveMealHandler
  \/ \E p \in inflight : pushOk(p)
  \/ \E p \in inflight, o \in StorageOutcomes, big \in BOOLEAN :
       pushFail(p, o, big)
  \/ \E netOk \in BOOLEAN, o1, o2 \in StorageOutcomes, big1, big2 \in BOOLEAN :
       sweepStep(netOk, o1, big1, o2, big2)
  \/ reload
  \/ login
  \/ linkLegacyServed
  \/ logout
  \/ \E rows \in SyncResults(AccountId), o, o2 \in StorageOutcomes,
        big, big2 \in BOOLEAN : syncFromCloud(rows, o, big, o2, big2)
  \/ pullFail
  \/ \E mt \in MealTypes, i \in 1 .. NumInstants : remotePost(mt, i)
  \/ heal
  \/ \E p \in ProfileForms, netOk \in BOOLEAN, o \in StorageOutcomes,
        big \in BOOLEAN : saveProfile(p, netOk, o, big)
  \/ \E d \in DaySums, ex \in BurntKcals : renderAdvice(d, ex)
  \/ \E kcal \in RemoteKcals : remoteActivity(kcal)
  \/ \E netOk \in BOOLEAN : loadExerciseDone(netOk)
  \/ \E kcal \in ExerciseKcals, posted \in BOOLEAN, o \in StorageOutcomes,
        big \in BOOLEAN : saveExercise(kcal, posted, o, big)
  \/ \E req \in Requests, i \in 1 .. NumInstants : srvPost(req, i)
  \/ \E req \in Requests, day \in Days : srvList(req, day)
  \/ \E req \in Requests, limit \in SyncLimits : srvSync(req, limit)
  \/ \E req \in Requests, id \in 1 .. MaxRows : srvDelete(req, id)
  \/ \E req \in Requests : srvPostGoal(req, defaultProfile)
  \/ \E req \in Requests, day \in Days, kcal \in ExerciseKcals :
       srvPostActivity(req, day, kcal)
  \/ \E req \in Requests, legacy \in LegacyIds : srvLinkLegacy(req, legacy)
  \/ \E id \in RecordIds, o \in StorageOutcomes, big \in BOOLEAN :
       deleteMeal(id, o, big)
  \/ \E served \in BOOLEAN, o \in StorageOutcomes, big \in BOOLEAN :
       deleteSettled(served, o, big)

Spec == Init /\ [][Next]_vars

TypeOK ==
  /\ now \in 1 .. NumInstants
  /\ nextId \in 1 .. MaxIds + 1
  /\ net \in {"flaky", "up"}
  /\ net = "flaky" => Len(srv) <= MaxRows

\* the local save path alone: review, save and edit with every storage
\* outcome, the clock running; MaxSaves new records, edits in place without
\* limit
TickSave == now < SaveInstants /\ Tick

\* a log left by an earlier session: empty, or one meal pulled from the
\* account
PulledRow ==
  LET body == MealBody([mealType |-> "lunch", createdAt |-> Instant(1),
                        items |-> <<Egg>>, summary |-> sumMealItems(<<Egg>>)])
  IN [id |-> 1, owner |-> AccountId, meal_type |-> body.meal_type,
      eaten_at |-> body.eaten_at, items |-> body.items,
      totals |-> body.totals, src |-> NoId]

StoredLogs == {EmptyLogs, mergeCloudMeals(EmptyLogs, <<PulledRow>>)}

InitSave ==
  /\ now = 1
  /\ tz = 8 * 3600000
  /\ nextId = 1
  /\ loggedIn = FALSE
  /\ userId = DeviceId(Instant(1))
  /\ link = "idle"
  /\ linkCalls = 0
  /\ logs \in StoredLogs
  /\ pendingMeal = NoMeal
  /\ editingMealId = NoId
  /\ uiDay = LocalDay(Instant(1))
  /\ toast = "none"
  /\ lsLogs = logs
  /\ lsPending = <<>>
  /\ exercise = {}
  /\ lsExercise = {}
  /\ inflight = {}
  /\ sweep = NoSweep
  /\ pull = "idle"
  /\ srv = <<>>
  /\ reloads = 0
  /\ remotePosts = 0
  /\ net = "flaky"
  /\ pushFails = [n \in 1 .. MaxIds |-> 0]
  /\ profile = defaultProfile
  /\ lsProfile = NoProfile
  /\ srvGoal = NoGoal
  /\ srvDeviceGoal = NoGoal
  /\ srvActivity = {}
  /\ advice = NoAdvice
  /\ resp = NoResponse
  /\ exLoad = "idle"
  /\ deleting = NoDelete
  /\ removed = {}

NextSave ==
  \/ TickSave
  \/ \E items \in AnalysisResults : onAnalyze(items)
  \/ \E i \in 1 .. MaxIds, k \in {"u", "cloud"} : viewMeal(<<k, i>>)
  \/ (nextId <= MaxSaves \/ EditTargetIdx > 0) /\ saveMealHandler

SpecSave == InitSave /\ [][NextSave]_vars

\* the first push of saved meals, across midnight on a device eight hours
\* east of UTC: saves that succeed, every outcome of the POST and of the
\* write of the queue
InitPush == Init /\ tz = 8 * 3600000

QueueOutcomes == {"ok", "ok0", "okPurge", "full", "unavailable", "other"}

NextPush ==
  \/ TickSave
  \/ \E items \in AnalysisResults : onAnalyze(items)
  \/ savePendingMealSync("lunch", "ok", FALSE)
  \/ \E p \in inflight : pushOk(p)
  \/ \E p \in inflight, o \in QueueOutcomes, big \in BOOLEAN :
       pushFail(p, o, big)

SpecPush == InitPush /\ [][NextPush]_vars

\* push, retry queue and sweep on a device in the UTC zone: saves that
\* succeed, every outcome of the POST and of the writes of the queue, page
\* loads
InitSync == Init /\ tz = 0

NextSync ==
  \/ \E items \in AnalysisResults : onAnalyze(items)
  \/ savePendingMealSync("lunch", "ok", FALSE)
  \/ \E p \in inflight : pushOk(p)
  \/ \E p \in inflight, o \in QueueOutcomes, big \in BOOLEAN :
       pushFail(p, o, big)
  \/ \E netOk \in BOOLEAN, o1, o2 \in QueueOutcomes, big1, big2 \in BOOLEAN :
       sweepStep(netOk, o1, big1, o2, big2)
  \/ reload

SpecSync == InitSync /\ [][NextSync]_vars

\* the same with a storage that takes every write and a network that
\* recovers for good; answers, sweeps and page loads keep coming, the page
\* being loaded again only when no request of the page is open
quietReload == inflight = {} /\ ~sweep.active /\ reload

NextSyncFair ==
  \/ \E items \in AnalysisResults : onAnalyze(items)
  \/ savePendingMealSync("lunch", "ok", FALSE)
  \/ \E p \in inflight : pushOk(p)
  \/ \E p \in inflight : pushFail(p, "ok", FALSE)
  \/ \E netOk \in BOOLEAN : sweepStep(netOk, "ok", FALSE, "ok", FALSE)
  \/ quietReload
  \/ heal

SpecSyncFair ==
  /\ InitSync
  /\ [][NextSyncFair]_vars
  /\ WF_vars(heal)
  /\ WF_vars(quietReload)
  /\ WF_vars(\E p \in inflight : pushOk(p))
  /\ WF_vars(\E netOk \in BOOLEAN : sweepStep(netOk, "ok", FALSE, "ok", FALSE))

\* pull: saves, pushes, meals of another device, login and page loads,
\* every write succeeding
NextPull ==
  \/ Tick
  \/ \E items \in AnalysisResults : onAnalyze(items)
  \/ \E mt \in MealTypes : savePendingMealSync(mt, "ok", FALSE)
  \/ \E p \in inflight : pushOk(p)
  \/ login
  \/ linkLegacyServed
  \/ reload
  \/ \E rows \in SyncResults(AccountId) : pullOk(rows, "ok", FALSE)
  \/ \E mt \in MealTypes, i \in 1 .. NumInstants : remotePost(mt, i)

SpecPull == Init /\ [][NextPull]_vars

(* ------------------------- the local save path ------------------------- *)
ErrorToasts == {"storageUnavailable", "storageFull", "saveFailed"}

AllIds(lg) == UNION {{lg[d][i].id : i \in 1 .. Len(lg[d])} : d \in Days}

HasRecord(lg, day, id) == \E i \in 1 .. Len(lg[day]) : lg[day][i].id = id

\* C1: a new meal is written first. When the write of the log throws, the
\* day lists in memory hold the records they held and none for the draft,
\* the draft stays in review and no POST is started; when the write
\* returns, today's list in memory and today's stored list both hold the new
\* record.
C1_WriteFirst ==
  [][\A mt \in MealTypes, o \in StorageOutcomes, big \in BOOLEAN :
       savePendingMealSync(mt, o, big) =>
         IF Succeeds(o)
         THEN /\ HasRecord(logs', todayKey, LocalId(nextId))
              /\ HasRecord(lsLogs', todayKey, LocalId(nextId))
         ELSE /\ \A d \in Days :
                   /\ Len(logs'[d]) = Len(logs[d])
                   /\ \A i \in 1 .. Len(logs[d]) : logs'[d][i].id = logs[d][i].id
              /\ LocalId(nextId) \notin AllIds(logs')
              /\ pendingMeal' = pendingMeal
              /\ inflight' = inflight]_vars

\* a first save has just failed: nothing is recorded, the draft is in review
C1_Witness ==
  /\ toast \in ErrorToasts
  /\ editingMealId = NoId
  /\ HasItems
  /\ logs = EmptyLogs
  /\ lsLogs = EmptyLogs
  /\ inflight = {}

\* C2: an edit of a record that is in today's list replaces it in place. The
\* list keeps its length, the record at the position keeps the id and the
\* cloudId it had, every other record of the day is what it was, and when
\* the write returns the stored list is the list in memory.
C2_EditInPlace ==
  [][\A mt \in MealTypes, o \in StorageOutcomes, big \in BOOLEAN :
       (EditTargetIdx > 0 /\ saveEdit(mt, o, big)) =>
         LET day == todayKey
             idx == EditTargetIdx
         IN /\ Len(logs'[day]) = Len(logs[day])
            /\ logs'[day][idx].id = editingMealId
            /\ logs'[day][idx].cloudId = logs[day][idx].cloudId
            /\ \A i \in 1 .. Len(logs[day]) :
                 i # idx => logs'[day][i] = logs[day][i]
            /\ Succeeds(o) =>
                 /\ lsLogs'[day] = logs'[day]
                 /\ logs'[day][idx].mealType = mt
                 /\ toast' = "recordUpdated"]_vars

\* the pulled lunch was edited into a dinner next to another record of the
\* day, and is still record 1 of the account
C2_Witness ==
  /\ toast = "recordUpdated"
  /\ Len(logs[uiDay]) >= 2
  /\ \E i \in 1 .. Len(logs[uiDay]) :
       /\ logs[uiDay][i].id = CloudLocalId(1)
       /\ logs[uiDay][i].cloudId = 1
       /\ logs[uiDay][i].mealType = "dinner"

\* C3 as stated: whenever the record edited is not in today's list the save
\* adds one record with a fresh id in front of the list and reports
\* "saved as new record".
C3_FallbackAlways ==
  [][\A mt \in MealTypes, o \in StorageOutcomes, big \in BOOLEAN :
       (EditTargetIdx = 0 /\ saveEdit(mt, o, big)) =>
         LET day == todayKey
         IN /\ Len(logs'[day]) = Len(logs[day]) + 1
            /\ logs'[day][1].id # editingMealId
            /\ logs'[day][1].id \notin AllIds(logs)
            /\ toast' = "savedAsNew"]_vars

\* C3, amended: the same when the write of the log returns; when it throws
\* no record is added, the edit stays open and the failure is reported.
C3_FallbackWhenWritten ==
  [][\A mt \in MealTypes, o \in StorageOutcomes, big \in BOOLEAN :
       (EditTargetIdx = 0 /\ saveEdit(mt, o, big)) =>
         LET day == todayKey
         IN IF Succeeds(o)
            THEN /\ Len(logs'[day]) = Len(logs[day]) + 1
                 /\ SubSeq(logs'[day], 2, Len(logs'[day])) = logs[day]
                 /\ logs'[day][1].id # editingMealId
                 /\ logs'[day][1].id \notin AllIds(logs)
                 /\ lsLogs'[day] = logs'[day]
                 /\ toast' = "savedAsNew"
            ELSE /\ \A d \in Days : Len(logs'[d]) = Len(logs[d])
                 /\ toast' \in ErrorToasts
                 /\ pendingMeal' = pendingMeal
                 /\ editingMealId' = editingMealId]_vars

\* an edit opened before midnight was saved after it, as a new record
C3_Witness ==
  /\ toast = "savedAsNew"
  /\ editingMealId = NoId
  /\ \E i \in 1 .. Len(logs[todayKey]) : logs[todayKey][i].id = LocalId(1)

(* --------------------------- push and retry ---------------------------- *)
\* the records of a log with the given id
RecordsOf(lg, id) ==
  UNION {{lg[d][i] : i \in {j \in 1 .. Len(lg[d]) : lg[d][j].id = id}} :
           d \in Days}

\* C4: when the POST of a newly saved meal is answered 2xx, the record of
\* the meal in memory and in the stored log has the id of the new row as
\* cloudId and is marked synced.
C4_PushRecorded ==
  [][\A p \in inflight :
       pushOk(p) =>
         \A m \in RecordsOf(logs', p.meal.id) \cup RecordsOf(lsLogs', p.meal.id) :
           m.cloudId = NextRowId /\ m.synced]_vars

\* C5 as stated: a failed first push appends one entry for the meal, with
\* syncAttempts 0, to the end of the stored queue, leaves the log in memory
\* and the stored log as they are and shows nothing.
C5_FailedPushQueued ==
  [][\A p \in inflight, o \in QueueOutcomes, big \in BOOLEAN :
       pushFail(p, o, big) =>
         LET n == Len(lsPending)
         IN /\ Len(lsPending') = n + 1
            /\ SubSeq(lsPending', 1, n) = lsPending
            /\ lsPending'[n + 1].id = p.meal.id
            /\ lsPending'[n + 1].syncAttempts = 0
            /\ logs' = logs
            /\ lsLogs' = lsLogs
            /\ toast' = toast]_vars

\* C5, amended: the entry is appended when the write of the queue returns;
\* when it throws, the queue is what it was or, purged by the cleanup,
\* empty. Either way nothing is shown, the log in memory is what it was, and
\* the stored log has the same records, the cleanup having at most taken
\* images out of them.
C5_QueuedWhenWritten ==
  [][\A p \in inflight, o \in QueueOutcomes, big \in BOOLEAN :
       pushFail(p, o, big) =>
         LET n == Len(lsPending)
         IN /\ IF Succeeds(o)
               THEN /\ Len(lsPending') = n + 1
                    /\ SubSeq(lsPending', 1, n) = lsPending
                    /\ lsPending'[n + 1].id = p.meal.id
                    /\ lsPending'[n + 1].syncAttempts = 0
               ELSE lsPending' \in {lsPending, <<>>}
            /\ logs' = logs
            /\ \A d \in Days :
                 /\ Len(lsLogs'[d]) = Len(lsLogs[d])
                 /\ \A i \in 1 .. Len(lsLogs[d]) :
                      lsLogs'[d][i] \in {lsLogs[d][i], StripImage(lsLogs[d][i])}
            /\ toast' = toast]_vars

\* the first push of meal 1 failed and its entry is the queue
C5_Witness ==
  /\ pushFails[1] = 1
  /\ inflight = {}
  /\ Len(lsPending) = 1
  /\ lsPending[1].id = LocalId(1)
  /\ lsPending[1].syncAttempts = 0
  /\ RecordsOf(lsLogs, LocalId(1)) # {}

\* C6: with every write succeeding, an entry whose POST failed during the
\* sweep with syncAttempts n < 4 is in the stored queue when the sweep has
\* written its result, with syncAttempts n + 1.
C6_SweepKeepsFailed ==
  [][\A netOk \in BOOLEAN :
       (/\ sweep.active
        /\ sweep.i = Len(sweep.pending)
        /\ sweepStep(netOk, "ok", FALSE, "ok", FALSE)) =>
         \A k \in 1 .. Len(sweep.pending) :
           LET e == sweep.pending[k]
               failed == k \in sweep.failed \/ (k = sweep.i /\ ~netOk)
           IN (failed /\ e.syncAttempts < MaxSyncAttempts - 1) =>
                \E j \in 1 .. Len(lsPending') :
                  /\ lsPending'[j].id = e.id
                  /\ lsPending'[j].syncAttempts = e.syncAttempts + 1]_vars

\* C7: once the network is up, a meal that is in the stored log and whose
\* pushes failed fewer than five times is eventually a row of the server.
OnServer(n) == \E i \in 1 .. Len(srv) : srv[i].src = LocalId(n)

C7_EventualDelivery ==
  \A n \in 1 .. MaxIds :
    [](/\ net = "up"
       /\ RecordsOf(lsLogs, LocalId(n)) # {}
       /\ pushFails[n] < MaxSyncAttempts
       => <>OnServer(n))

(* --------------------------------- pull -------------------------------- *)
AllRecords(lg) == UNION {{lg[d][i] : i \in 1 .. Len(lg[d])} : d \in Days}

\* C8: a pull of one remote record. When a record in memory without cloudId
\* has the remote's meal type and a createdAt less than 60 s from its
\* eaten_at, on the same day of the calendar (the device's and UTC's), and
\* no record has the remote's id, no day list grows and a record carries the
\* remote's id afterwards; when every record in memory
\* is of another type or at least 120 s away, and none has the remote's id,
\* the day list of the remote record grows by one.
C8_MergeWindow ==
  [][\A rows \in SyncResults(AccountId) :
       (Len(rows) = 1 /\ pullOk(rows, "ok", FALSE)) =>
         LET row == rows[1]
             known == {m \in AllRecords(logs) : m.cloudId = row.id}
             near == {m \in AllRecords(logs) :
                        /\ m.cloudId = NoCloudId
                        /\ m.mealType = row.meal_type
                        /\ Abs(m.createdAt - row.eaten_at) < WindowMs
                        /\ LocalDay(m.createdAt) = LocalDay(row.eaten_at)
                        /\ UtcDay(m.createdAt) = UtcDay(row.eaten_at)}
             far == \A m \in AllRecords(logs) :
                      \/ m.mealType # row.meal_type
                      \/ Abs(m.createdAt - row.eaten_at) >= 2 * WindowMs
         IN /\ (near # {} /\ known = {}) =>
                 /\ \A d \in Days : Len(logs'[d]) = Len(logs[d])
                 /\ \E m \in AllRecords(logs') : m.cloudId = row.id
            /\ (far /\ known = {}) =>
                 \E d \in Days : Len(logs'[d]) = Len(logs[d]) + 1]_vars

\* C9: a pull of one remote record whose id is the cloudId of a record of
\* its day merges into that record: every other record of the day is in the
\* day list afterwards as it was.
C9_ServerIdFirst ==
  [][\A rows \in SyncResults(AccountId) :
       (Len(rows) = 1 /\ pullOk(rows, "ok", FALSE)) =>
         LET row == rows[1]
             d == UtcDay(row.eaten_at)
         IN (\E j \in 1 .. Len(logs[d]) : logs[d][j].cloudId = row.id) =>
              \A j \in 1 .. Len(logs[d]) :
                logs[d][j].cloudId # row.id =>
                  \E k \in 1 .. Len(logs'[d]) : logs'[d][k] = logs[d][j]]_vars

\* C10: a pull of one remote record that matches a record in memory leaves
\* a record with the id and the image of the one matched and with the
\* remote's id, meal type and time.
C10_MergeKeepsLocal ==
  [][\A rows \in SyncResults(AccountId) :
       (Len(rows) = 1 /\ pullOk(rows, "ok", FALSE)) =>
         LET row == rows[1]
             d == UtcDay(row.eaten_at)
             idx == ExistingIdx(logs, row)
         IN idx > 0 =>
              \E k \in 1 .. Len(logs'[d]) :
                /\ logs'[d][k].id = logs[d][idx].id
                /\ logs'[d][k].img = logs[d][idx].img
                /\ logs'[d][k].cloudId = row.id
                /\ logs'[d][k].mealType = row.meal_type
                /\ logs'[d][k].createdAt = row.eaten_at]_vars

(* -------------------------------- totals ------------------------------- *)
\* the protein an item carries: p on an item built on the device, protein_g
\* on an item of the remote schema
ItemProtein(item) == IF item.p # Undef THEN item.p ELSE item.protein_g

RECURSIVE SumKcal(_)
SumKcal(items) ==
  IF items = <<>> THEN 0 ELSE items[1].kcal + SumKcal(Tail(items))

RECURSIVE SumProtein(_)
SumProtein(items) ==
  IF items = <<>> THEN 0 ELSE ItemProtein(items[1]) + SumProtein(Tail(items))

\* C11: the summary of every record of the log in memory is the sum of its
\* items, component by component.
C11_TotalsAreSums ==
  \A m \in AllRecords(logs) :
    /\ m.summary.kcal = SumKcal(m.items)
    /\ m.summary.p = SumProtein(m.items)

(* ------------------- memory and the durable write ---------------------- *)
\* the pull and the save of a new meal, the write of the log free to fail
NextPullWrite ==
  \/ \E items \in AnalysisResults : onAnalyze(items)
  \/ \E mt \in MealTypes, o \in StorageOutcomes, big \in BOOLEAN :
       savePendingMealSync(mt, o, big)
  \/ \E p \in inflight : pushOk(p)
  \/ login
  \/ linkLegacyServed
  \/ reload
  \/ \E rows \in SyncResults(AccountId), o \in StorageOutcomes,
        big \in BOOLEAN : pullOk(rows, o, big)
  \/ \E mt \in MealTypes, i \in 1 .. NumInstants : remotePost(mt, i)

SpecPullWrite == InitSync /\ [][NextPullWrite]_vars

\* C12: an operation on the meals whose write of the log fails leaves the log
\* in memory as it was before the operation (new save, pull merge).
C12_MemoryAfterWrite ==
  [][\A o \in StorageOutcomes, big \in BOOLEAN :
       ~Succeeds(o) =>
         /\ \A mt \in MealTypes :
              savePendingMealSync(mt, o, big) => logs' = logs
         /\ \A rows \in SyncResults(AccountId) :
              (rows # <<>> /\ pullOk(rows, o, big)) => logs' = logs]_vars

(* ------------------------- eviction under quota ------------------------ *)
\* what localStorage.setItem does in saveJSON:
\*  "roomy"    the probe and the write fit
\*  "tight"    the probe fits, the write exceeds the quota
\*  "brimful"  the store is full: not even the probe entry fits
\*  "blocked"  access to storage is refused
\*  "faulty"   the write throws an error that is not a quota error
StoreConditions == {"roomy", "tight", "brimful", "blocked", "faulty"}

\* the outcomes of saveJSON under a condition of the store
OutcomesUnder(cond) ==
  CASE cond = "roomy" -> {"ok"}
    [] cond = "tight" -> {"ok7", "ok3", "ok1", "ok0", "okPurge", "full"}
    [] cond \in {"brimful", "blocked"} -> {"unavailable"}
    [] OTHER -> {"other"}

\* the save of a new meal with the store in a given condition
saveUnder(cond, mealType, o, big) ==
  /\ o \in OutcomesUnder(cond)
  /\ savePendingMealSync(mealType, o, big)

\* a meal saved on an earlier day, its photo still embedded
OldMeal(d) ==
  [id |-> <<"old", 0 - d>>, cloudId |-> NoCloudId,
   createdAt |-> Instant(1) + d * DayMs, mealType |-> "lunch", img |-> TRUE,
   items |-> <<Rice>>, summary |-> sumMealItems(<<Rice>>), synced |-> FALSE]

OldDays == {d \in Days : d < 0}

\* logs left by earlier sessions: one meal with a photo on some earlier days
EvictLogs ==
  {[d \in Days |-> IF d \in S THEN <<OldMeal(d)>> ELSE <<>>] :
     S \in SUBSET OldDays}

InitEvict ==
  /\ now = 1
  /\ tz = 0
  /\ nextId = 1
  /\ loggedIn = FALSE
  /\ userId = DeviceId(Instant(1))
  /\ link = "idle"
  /\ linkCalls = 0
  /\ logs \in EvictLogs
  /\ pendingMeal = NoMeal
  /\ editingMealId = NoId
  /\ uiDay = LocalDay(Instant(1))
  /\ toast = "none"
  /\ lsLogs = logs
  /\ lsPending = <<>>
  /\ exercise = {ExerciseEntry(-1, 300, "manual")}
  /\ lsExercise = exercise
  /\ inflight = {}
  /\ sweep = NoSweep
  /\ pull = "idle"
  /\ srv = <<>>
  /\ reloads = 0
  /\ remotePosts = 0
  /\ net = "flaky"
  /\ pushFails = [n \in 1 .. MaxIds |-> 0]
  /\ profile = defaultProfile
  /\ lsProfile = NoProfile
  /\ srvGoal = NoGoal
  /\ srvDeviceGoal = NoGoal
  /\ srvActivity = {}
  /\ advice = NoAdvice
  /\ resp = NoResponse
  /\ exLoad = "idle"
  /\ deleting = NoDelete
  /\ removed = {}

NextEvict ==
  \/ \E items \in AnalysisResults : onAnalyze(items)
  \/ \E cond \in StoreConditions, mt \in MealTypes, o \in StorageOutcomes,
        big \in BOOLEAN : saveUnder(cond, mt, o, big)
  \/ \E p \in inflight : pushOk(p)
  \/ \E p \in inflight : pushFail(p, "ok", FALSE)
  \/ \E o \in StorageOutcomes, big \in BOOLEAN :
       saveExercise(300, FALSE, o, big)

SpecEvict == InitEvict /\ [][NextEvict]_vars

\* the images of a logs value, as day and position
Images(lg) == {<<d, i>> \in Days \X (1 .. 3) : i <= Len(lg[d]) /\ lg[d][i].img}

\* a record of day d had an image in lg and has none in lg2
LostImage(lg, lg2, d) ==
  \E i \in 1 .. Len(lg[d]) : lg[d][i].img /\ ~lg2[d][i].img

\* C13: a save of a new meal that ends in STORAGE_FULL leaves the log in
\* memory as it was: no record added, no image cleared.
C13_FullLeavesMemory ==
  [][\A mt \in MealTypes, big \in BOOLEAN :
       savePendingMealSync(mt, "full", big) => logs' = logs]_vars

\* C14: the cleanup strips older days first and stops at the first write that
\* succeeds: a write that succeeds at threshold N leaves the images of the
\* days aged N or less, an image is stripped only when those of all older
\* days are, and the last step strips every image.
C14_EvictionOrder ==
  [][\A mt \in MealTypes, o \in StorageOutcomes, big \in BOOLEAN :
       (savePendingMealSync(mt, o, big) /\ Rungs(o) > 0) =>
         /\ Succeeds(o) =>
              \A d \in OldDays :
                todayKey - d <= cleanupDays[Rungs(o)] =>
                  ~LostImage(lsLogs, lsLogs', d)
         /\ \A d1, d2 \in OldDays :
              (d1 < d2 /\ LostImage(lsLogs, lsLogs', d2)) =>
                \A i \in 1 .. Len(lsLogs'[d1]) : ~lsLogs'[d1][i].img
         /\ Rungs(o) = 4 => Images(lsLogs') = {}]_vars

\* C15: a write that fails for lack of room enters the cleanup and is never
\* reported as STORAGE_UNAVAILABLE; STORAGE_UNAVAILABLE is reported only when
\* access to storage is blocked.
C15_FullIsNotUnavailable ==
  [][\A cond \in StoreConditions, mt \in MealTypes, o \in StorageOutcomes,
        big \in BOOLEAN :
       saveUnder(cond, mt, o, big) =>
         /\ toast' = "storageUnavailable" => cond = "blocked"
         /\ cond \in {"tight", "brimful"} => Rungs(o) > 0
         /\ toast' = "storageFull" => Rungs(o) = 4]_vars

\* the setItem(key, value) calls one saveJSON makes
Writes(o) ==
  CASE o = "unavailable" -> 0
    [] o \in {"ok", "other"} -> 1
    [] o \in {"okPurge", "full"} -> Len(cleanupDays) + 2
    [] OTHER -> Rungs(o) + 1

\* C16: when the write still fails after the last cleanup of images, the
\* pending queue and the activity cache are removed from the store whatever
\* their size, and the write is tried once more.
C16_PurgeRemovesCaches ==
  [][\A mt \in MealTypes, o \in StorageOutcomes, big \in BOOLEAN :
       (savePendingMealSync(mt, o, big) /\ Purges(o)) =>
         /\ lsPending' = <<>>
         /\ lsExercise' = {}
         /\ Writes(o) = Writes("ok0") + 1]_vars

(* ------------------------------- identity ------------------------------ *)
\* the device id across sign-in, link, pull, sign-out and page loads; the
\* link-legacy request is answered by whatever server is deployed, 2xx or not
NextIdentity ==
  \/ Tick
  \/ \E items \in AnalysisResults : onAnalyze(items)
  \/ login
  \/ \E resOk \in BOOLEAN : linkLegacyDone(resOk)
  \/ logout
  \/ reload
  \/ \E rows \in SyncResults(AccountId) : pullOk(rows, "ok", FALSE)
  \/ pullFail

SpecIdentity == InitSync /\ [][NextIdentity]_vars

C18_LinkOncePerLogin ==
  [][IF ~loggedIn /\ loggedIn'
     THEN IF userId # NoUser /\ userId # AccountId
          THEN linkCalls' = 1 /\ link' = "waiting"
          ELSE linkCalls' = 0 /\ link' = "idle" /\ pull' = "fetching"
     ELSE /\ linkCalls' = linkCalls
          /\ link' = "waiting" => link = "waiting"
          /\ \A resOk \in BOOLEAN :
               (linkLegacyDone(resOk) /\ loggedIn) =>
                 loggedIn' /\ pull' = "fetching"]_vars

\* a sign-in whose link-legacy request failed has completed: signed in, the
\* pull running, the device id still stored
C18_Witness ==
  /\ loggedIn
  /\ link = "idle"
  /\ linkCalls = 1
  /\ pull = "fetching"
  /\ userId # AccountId

\* C19: once the server has answered the link-legacy request of a sign-in,
\* no row of the meals table is owned by the device id.
C19_RowsReassigned ==
  [][linkLegacyServed =>
       \A i \in 1 .. Len(srv') : srv'[i].owner # userId]_vars

(* ------------------------------ the draft ------------------------------ *)
\* a food the analysis gives no energy and no protein
Water ==
  [name |-> "water", portion_g |-> Undef, kcal |-> 0, p |-> 0,
   protein_g |-> Undef]

\* what the analysis may return: nothing, a food of zero totals, a meal
DraftResults == {<<>>, <<Water>>, <<Rice, Egg>>}

\* the outcomes of the write the draft's saves are tried with
DraftOutcomes == {"ok", "unavailable"}

NextDraft ==
  \/ \E items \in DraftResults : onAnalyze(items)
  \/ \E k \in 1 .. 2 : deleteItem(k)
  \/ \E i \in 1 .. MaxIds, k \in {"u", "cloud"} : viewMeal(<<k, i>>)
  \/ saveRejected
  \/ \E mt \in MealTypes, o \in DraftOutcomes : saveEdit(mt, o, FALSE)
  \/ \E mt \in MealTypes, o \in DraftOutcomes :
       nextId <= MaxSaves /\ savePendingMealSync(mt, o, FALSE)

SpecDraft == InitSave /\ [][NextDraft]_vars

\* C20: while the draft has no items no step changes the log in memory, the
\* stored log, the queue or the ids, or starts a POST, and a save request
\* shows "no items" and keeps the draft and the edit open; a draft with
\* items whose totals are all zero is saved like any other.
C20_EmptyDraftRejected ==
  [][/\ (pendingMeal # NoMeal /\ Len(pendingMeal.items) = 0) =>
          /\ UNCHANGED <<nextId, logs, lsLogs, lsPending, inflight, profile,
                         lsProfile, srvGoal, srvDeviceGoal, srvActivity,
                         advice, resp, exLoad, deleting, removed>>
          /\ toast' # toast =>
               /\ toast' = "noItems"
               /\ UNCHANGED <<pendingMeal, editingMealId, profile, lsProfile,
                              srvGoal, srvDeviceGoal, srvActivity, advice,
                              resp, exLoad, deleting, removed>>
     /\ \A mt \in MealTypes :
          (/\ savePendingMealSync(mt, "ok", FALSE)
           /\ pendingMeal.summary = [kcal |-> 0, p |-> 0]) =>
            /\ HasRecord(logs', todayKey, LocalId(nextId))
            /\ HasRecord(lsLogs', todayKey, LocalId(nextId))
            /\ pendingMeal' = NoMeal
            /\ toast' = "savedTo"]_vars

\* a meal of zero totals is in the log and a save of an emptied draft has
\* just been refused
C20_Witness ==
  /\ toast = "noItems"
  /\ pendingMeal # NoMeal
  /\ Len(pendingMeal.items) = 0
  /\ \E m \in AllRecords(logs) :
       m.summary = [kcal |-> 0, p |-> 0] /\ Len(m.items) > 0
  /\ lsLogs = logs

(* ------------------------------- targets ------------------------------- *)
\* the profile sheet alone: every form, saved on a device that is not
\* logged in
NextTargets ==
  \/ \E p \in ProfileForms : saveProfile(p, FALSE, "ok", FALSE)
  \/ reload

SpecTargets == InitSync /\ [][NextTargets]_vars

\* k = Math.round(n / d)
IsRound(k, n, d) == 2 * n - d < 2 * d * k /\ 2 * d * k <= 2 * n + d

\* 3200 times TDEE x f: four times the BMR, forty times the activity
\* factor, twenty times f
Tdee3200(p) ==
  (40 * p.weight + 25 * p.height - 20 * p.age
     + (IF p.sex = "male" THEN 20 ELSE -644))
  * (p.activity \div 25)
  * (CASE p.goalType = "cut" -> 17 [] p.goalType = "bulk" -> 22
       [] OTHER -> 20)

\* (P, C, F) in percent
MacroPercent(goalType) ==
  CASE goalType = "cut" -> <<30, 40, 30>>
    [] goalType = "bulk" -> <<25, 50, 25>>
    [] OTHER -> <<25, 45, 30>>

ExampleProfile(p) ==
  /\ p.sex = "male" /\ p.age = 30 /\ p.height = 175 /\ p.weight = 70
  /\ p.activity = 1375 /\ p.goalType = "maintain"

\* C22 as stated: the targets of a saved profile are kcal =
\* round(TDEE x f), proteinG = round(kcal P / 4), carbsG = round(kcal C / 4),
\* fatG = round(kcal F / 9) computed from that kcal, and the example profile
\* (male, 30, 175, 70, 1.375, maintain) gets 2301 kcal.
C22_TargetsAsStated ==
  profile # defaultProfile =>
    LET g == profile.goals
        r == MacroPercent(profile.goalType)
    IN /\ IsRound(g.kcal, Tdee3200(profile), 3200)
       /\ IsRound(g.p, g.kcal * r[1], 400)
       /\ IsRound(g.c, g.kcal * r[2], 400)
       /\ IsRound(g.f, g.kcal * r[3], 900)
       /\ ExampleProfile(profile) => g.kcal = 2301

\* C22, amended: kcal = round(TDEE x f); the macros are the rounded shares
\* of the unrounded TDEE x f, round(TDEE f P / 4), round(TDEE f C / 4),
\* round(TDEE f F / 9); the example profile gets 2267 kcal (its BMR is
\* 1648.75).
C22_TargetsFormula ==
  profile # defaultProfile =>
    LET g == profile.goals
        r == MacroPercent(profile.goalType)
        t == Tdee3200(profile)
    IN /\ IsRound(g.kcal, t, 3200)
       /\ IsRound(g.p, t * r[1], 3200 * 400)
       /\ IsRound(g.c, t * r[2], 3200 * 400)
       /\ IsRound(g.f, t * r[3], 3200 * 900)
       /\ ExampleProfile(profile) => g.kcal = 2267

C22_Witness ==
  /\ ExampleProfile(profile)
  /\ profile.goals = [kcal |-> 2267, p |-> 142, c |-> 255, f |-> 76]
  /\ lsProfile = profile

(* ------------------------- profile saves and pulls --------------------- *)
\* the forms saved where the profile is also posted and pulled
SyncedForms ==
  {p \in ProfileForms :
     p.sex = "male" /\ p.age = 30 /\ p.activity \in {1375, 1900}}

\* profile saves with a write that succeeds or throws, signed out or signed
\* in with the post reaching the server or not, page loads, pulls
NextProfile ==
  \/ \E p \in SyncedForms, netOk \in BOOLEAN, o \in DraftOutcomes :
       saveProfile(p, netOk, o, FALSE)
  \/ login
  \/ linkLegacyServed
  \/ reload
  \/ pullOk(<<>>, "ok", FALSE)
  \/ pullFail

SpecProfile == InitSync /\ [][NextProfile]_vars

\* C21: the targets of the stored profile are calcGoals of the inputs
\* stored beside them, after any saves and pulls; in memory the same holds
\* of every profile but the built-in default one, whose targets are fixed.
C21_TargetsDerived ==
  /\ lsProfile # NoProfile => lsProfile.goals = calcGoals(lsProfile)
  /\ profile # defaultProfile => profile.goals = calcGoals(profile)

\* a pull has run while the server held targets that differ from the
\* stored ones
C21_Witness ==
  /\ toast = "synced"
  /\ srvGoal # NoGoal
  /\ lsProfile # NoProfile
  /\ lsProfile = profile
  /\ srvGoal.targets.kcal # lsProfile.goals.kcal

(* -------------------------------- advice ------------------------------- *)
NextAdvice ==
  \/ \E p \in ProfileForms :
       ExampleProfile(p) /\ saveProfile(p, FALSE, "ok", FALSE)
  \/ \E d \in DaySums, ex \in BurntKcals : renderAdvice(d, ex)

SpecAdvice == InitSync /\ [][NextAdvice]_vars

\* the deltas of the ladder as the specification words them
Overage(a) == (a.daySum.kcal - a.exerciseKcal) - a.goals.kcal
ProteinDeficit(a) == a.goals.p - a.daySum.p
FatExcess(a) == a.daySum.f - a.goals.f
CarbDeficit(a) == a.goals.c - a.daySum.c

\* the first rule of the ladder that matches
LadderRule(a) ==
  IF Overage(a) > 150 THEN "overage"
  ELSE IF ProteinDeficit(a) > 20 THEN "protein"
  ELSE IF FatExcess(a) > 15 THEN "fat"
  ELSE IF CarbDeficit(a) > 40 /\ -Overage(a) > 150 THEN "carbs"
  ELSE "onTrack"

\* C23: the advice is the message of the first matching rule of overage
\* beyond 150 kcal, protein deficit beyond 20 g, fat excess beyond 15 g, carb
\* deficit beyond 40 g with more than 150 kcal left, on track; nothing else
\* pre-empts them; an overage of 200 kcal with a protein deficit of 25 g
\* gives the overage warning.
C23_AdviceLadder ==
  advice # NoAdvice =>
    /\ advice.text.rule = LadderRule(advice)
    /\ Overage(advice) = 200 /\ ProteinDeficit(advice) = 25 =>
         advice.text.rule = "overage"

\* C24: with no higher rule matching, carbs more than 40 g under the target
\* and more than 150 kcal left give the carb top-up with min(deficit, 80) g;
\* carbs at or above the target never give it.
C24_CarbTopUp ==
  advice # NoAdvice =>
    /\ ( /\ Overage(advice) <= 150
         /\ ProteinDeficit(advice) <= 20
         /\ FatExcess(advice) <= 15
         /\ CarbDeficit(advice) > 40
         /\ -Overage(advice) > 150 ) =>
         advice.text = AdviceText("carbs", Min(CarbDeficit(advice), 80))
    /\ CarbDeficit(advice) <= 0 => advice.text.rule # "carbs"

(* --------------------------- the activity pull ------------------------- *)
\* exercise saved on the device and on another device of the account, in
\* either time zone, page loads and pulls, the write of the cache
\* succeeding or not
NextActivity ==
  \/ Tick
  \/ \E posted \in BOOLEAN, o \in DraftOutcomes :
       saveExercise(300, posted, o, FALSE)
  \/ \E kcal \in RemoteKcals : remoteActivity(kcal)
  \/ login
  \/ linkLegacyServed
  \/ reload
  \/ \E netOk \in BOOLEAN : loadExerciseDone(netOk)
  \/ \E o2 \in DraftOutcomes : syncFromCloud(<<>>, "ok", FALSE, o2, FALSE)
  \/ pullFail

SpecActivity == Init /\ [][NextActivity]_vars

EntriesOn(e, day) == {x \in e : x.day = day}

\* C25: when mergeCloudActivity has run, the entry of every pulled day
\* holds the remote values, whatever was there, and the entries of the
\* other days are the ones from before, no day added; the stored cache is
\* the same when its write succeeds.
C25_RemoteActivityWins ==
  [][\A o2 \in DraftOutcomes :
       LET acts == ActivitiesOf(AccountId)
       IN (acts # {} /\ syncFromCloud(<<>>, "ok", FALSE, o2, FALSE)) =>
            /\ \A a \in acts :
                 /\ EntriesOn(exercise', a.day_iso) # {}
                 /\ \A x \in EntriesOn(exercise', a.day_iso) :
                      x.exerciseKcal = a.exercise_kcal
            /\ \A d \in Days :
                 (\A a \in acts : a.day_iso # d) =>
                   EntriesOn(exercise', d) = EntriesOn(exercise, d)
            /\ Succeeds(o2) => lsExercise' = exercise']_vars

\* after a pull: a day holding the remote 500 kcal beside a day holding
\* the entry of the form
C25_Witness ==
  /\ toast = "synced"
  /\ \E x, y \in exercise :
       /\ x.src = "synced" /\ x.exerciseKcal = 500
       /\ y.src = "manual" /\ y.day # x.day
  /\ lsExercise = exercise

(* ---------------------------- the failed pull -------------------------- *)
\* a device in the UTC zone with a meal, an exercise entry and a profile of
\* its own, an account that holds a meal and an exercise entry of another
\* device, sign-in, page loads, and pulls whose fetches are answered or
\* reject; every write succeeds
NextPullFail ==
  \/ \E items \in AnalysisResults : onAnalyze(items)
  \/ savePendingMealSync("lunch", "ok", FALSE)
  \/ saveExercise(300, FALSE, "ok", FALSE)
  \/ \E p \in SyncedForms :
       p.goalType = "cut" /\ saveProfile(p, FALSE, "ok", FALSE)
  \/ remotePost("dinner", 1)
  \/ \E kcal \in RemoteKcals : remoteActivity(kcal)
  \/ login
  \/ linkLegacyServed
  \/ reload
  \/ \E fates \in FetchFates, rows \in SyncResults(AccountId) :
       pullSettled(fates, rows, "ok", FALSE, "ok", FALSE)

SpecPullFail == InitSync /\ [][NextPullFail]_vars

\* C26: a pull one of whose fetches rejects leaves the profile, the meal
\* log and the activity log as they were, in memory and in the store, and
\* shows no message.
C26_FailedPullKeepsLocal ==
  [][\A fates \in FetchFates, rows \in SyncResults(AccountId) :
       ( /\ \E k \in {"profile", "meals", "activity"} : fates[k] = "rejected"
         /\ pullSettled(fates, rows, "ok", FALSE, "ok", FALSE) ) =>
         /\ UNCHANGED <<logs, exercise, profile, srvDeviceGoal, deleting,
                        removed>>
         /\ UNCHANGED <<lsLogs, lsPending, lsExercise, lsProfile,
                        srvDeviceGoal, deleting, removed>>
         /\ UNCHANGED <<uiDay, toast, srvDeviceGoal, deleting, removed>>]_vars

\* the pull started by a page load has ended without a merge although the
\* account holds a meal and an exercise entry the device does not have
C26_Witness ==
  /\ loggedIn /\ pull = "idle" /\ toast = "none"
  /\ RowsOf(AccountId) # {}
  /\ ActivitiesOf(AccountId) # {}
  /\ \A x \in exercise : x.src = "manual"
  /\ exercise # {}
  /\ lsProfile # NoProfile
  /\ \A m \in AllRecords(logs) : m.cloudId = NoCloudId
  /\ AllRecords(logs) # {}

(* ------------------------- the server's identity ----------------------- *)
\* requests with every combination of token and header reach the meal
\* endpoints while the client logs in and out.
ServerDays == {-1, 0}

\* the headers and the eaten_at instants of these requests
ServerRequests == {req \in Requests : req.xUserId # AccountId}
PostInstants == {1, 2}

NextServer ==
  \/ \E req \in ServerRequests, i \in PostInstants : srvPost(req, i)
  \/ \E req \in ServerRequests, day \in ServerDays : srvList(req, day)
  \/ \E req \in ServerRequests, limit \in SyncLimits : srvSync(req, limit)
  \/ \E req \in ServerRequests, id \in 1 .. MaxRows : srvDelete(req, id)
  \/ login
  \/ logout

SpecServer == InitSync /\ [][NextServer]_vars

\* the identity the claim gives to a request
TokenFirst(req) ==
  IF req.bearer # NoToken /\ req.bearer.valid THEN req.bearer.sub
  ELSE IF req.xUserId # NoUser THEN req.xUserId
  ELSE Demo

\* C27: the server resolves a request to the subject of its bearer token
\* whenever the token is valid, whatever X-User-Id says, and to X-User-Id
\* only without a valid token; every handled request ran under that
\* identity; while the client is logged in the headers of its sync requests
\* carry the bearer token, and the server resolves them to the account.
C27_TokenIdentity ==
  /\ \A req \in Requests : ResolveUser(req) = TokenFirst(req)
  /\ resp # NoResponse => resp.userId = TokenFirst(resp.headers)
  /\ loggedIn => /\ getAuthHeaders.bearer = Token(AccountId, TRUE)
                 /\ ResolveUser(getAuthHeaders) = AccountId

\* a request with a valid token of the account and the X-User-Id of a device
\* was handled under the account, while the client is logged in
C27_Witness ==
  /\ resp # NoResponse
  /\ resp.headers = [bearer |-> Token(AccountId, TRUE),
                     xUserId |-> DeviceId(Instant(1))]
  /\ resp.userId = AccountId
  /\ loggedIn


(* ------------------------- isolation on the server --------------------- *)
\* the identities requests are made under
Identities == {ResolveUser(req) : req \in ServerRequests}

MealsOf(meals) == {meals[k].id : k \in 1 .. Len(meals)}

\* C28: whatever create, list, sync and delete requests the identities send,
\* a list or sync answered under an identity holds only meals created under
\* it, and a delete under one identity removes no meal of another: a row
\* keeps its owner until a delete of its id under that owner removes it, and
\* no row comes back.
C28_Isolation ==
  [][/\ Len(srv') >= Len(srv)
     /\ \A i \in 1 .. Len(srv) :
          srv'[i].owner # srv[i].owner =>
            /\ srv[i].owner # Deleted
            /\ srv'[i].owner = Deleted
            /\ resp'.kind = "delete"
            /\ resp'.userId = srv[i].owner
            /\ resp'.id = srv[i].id
     /\ (resp' # resp /\ resp'.kind = "post") =>
          srv'[Len(srv')].owner = resp'.userId
     /\ (resp'.kind \in {"list", "sync"}) =>
          \A k \in 1 .. Len(resp'.meals) :
            /\ resp'.meals[k].owner = resp'.userId
            /\ srv[resp'.meals[k].id].owner = resp'.userId]_vars

\* a delete of the id of another identity's meal was answered and the meal
\* is still there, next to a meal of the identity that asked
C28_Witness ==
  /\ resp.kind = "delete"
  /\ resp.id \in 1 .. Len(srv)
  /\ srv[resp.id].owner \in Identities \ {resp.userId}
  /\ RowsOf(resp.userId) # {}

(* --------------------------- the meal store ---------------------------- *)
\* the ids of the meals an identity has on the server
StoredIds(owner) == {srv[i].id : i \in RowsOf(owner)}

\* the same after the step
StoredIdsAfter(owner) ==
  {srv'[i].id : i \in {j \in 1 .. Len(srv') : srv'[j].owner = owner}}

\* a POST answers with an id no row ever had
FreshId ==
  (resp' # resp /\ resp'.kind = "post") =>
    /\ \A i \in 1 .. Len(srv) : srv[i].id # resp'.id
    /\ resp'.id \in StoredIdsAfter(resp'.userId)

\* a meal leaves the store of its identity only through a DELETE of its id
\* under that identity, and a meal that left does not come back
StoredUntilDeleted ==
  \A o \in Identities :
    /\ \A id \in StoredIds(o) \ StoredIdsAfter(o) :
         resp'.kind = "delete" /\ resp'.userId = o /\ resp'.id = id
    /\ \A id \in StoredIdsAfter(o) \ StoredIds(o) :
         resp'.kind = "post" /\ resp'.id = id /\ id > Len(srv)

\* a DELETE answers success, and the meal is gone, also when there was none
DeleteSucceeds ==
  (resp' # resp /\ resp'.kind = "delete") =>
    /\ resp'.success
    /\ resp'.id \notin StoredIdsAfter(resp'.userId)

\* C29 as claimed: a POST returns a fresh id; every sync of the identity
\* returns all meals it has stored and not deleted; DELETE answers success
\* also without such a meal.
C29_EverySync ==
  [][/\ FreshId
     /\ StoredUntilDeleted
     /\ DeleteSucceeds
     /\ resp'.kind = "sync" =>
          MealsOf(resp'.meals) = StoredIds(resp'.userId)]_vars

\* C29, amended: a POST returns a fresh id; a sync returns the limit most
\* recent stored meals of the identity, so all of them when the limit is
\* not below their number; a deleted meal never comes back; DELETE answers
\* success also without such a meal.
C29_SyncWithinLimit ==
  [][/\ FreshId
     /\ StoredUntilDeleted
     /\ DeleteSucceeds
     /\ resp'.kind = "sync" =>
          /\ MealsOf(resp'.meals) \subseteq StoredIds(resp'.userId)
          /\ Len(resp'.meals) =
               Min(resp'.limit, Cardinality(StoredIds(resp'.userId)))
          /\ \A k \in 1 .. Len(resp'.meals), i \in RowsOf(resp'.userId) :
               srv[i].id \notin MealsOf(resp'.meals) =>
                 srv[i].eaten_at <= resp'.meals[k].eaten_at]_vars

\* a sync with limit 1 was answered with one of the two meals of the
\* identity
C29_Witness ==
  /\ resp.kind = "sync"
  /\ resp.limit = 1
  /\ Len(resp.meals) = 1
  /\ Cardinality(StoredIds(resp.userId)) = 2


(* ------------------------- analysis and its fallback ------------------- *)
\* FOOD_DB: kcal and protein per 100 g, in tenths
FOOD_DB ==
  [rice |-> [id |-> "rice", kcal |-> 1160, p |-> 26],
   chicken_breast |-> [id |-> "chicken_breast", kcal |-> 1650, p |-> 310],
   egg |-> [id |-> "egg", kcal |-> 1430, p |-> 130],
   broccoli |-> [id |-> "broccoli", kcal |-> 340, p |-> 28],
   salmon |-> [id |-> "salmon", kcal |-> 2080, p |-> 200],
   tofu |-> [id |-> "tofu", kcal |-> 760, p |-> 80],
   banana |-> [id |-> "banana", kcal |-> 890, p |-> 11],
   oats |-> [id |-> "oats", kcal |-> 3890, p |-> 169],
   milk |-> [id |-> "milk", kcal |-> 600, p |-> 32],
   apple |-> [id |-> "apple", kcal |-> 520, p |-> 3],
   noodles |-> [id |-> "noodles", kcal |-> 1380, p |-> 45]]

\* defaultPortion, in grams
defaultPortion(foodId) ==
  [rice |-> 160, chicken_breast |-> 140, broccoli |-> 120, egg |-> 60,
   noodles |-> 220, salmon |-> 120, tofu |-> 220, banana |-> 120,
   oats |-> 60, milk |-> 250, apple |-> 180][foodId]

\* makeItemFromFood: kcal and p in tenths (round1), confidence in hundredths
makeItemFromFood(food, weight_g, confidence) ==
  [name |-> food.id, portion_g |-> Undef,
   kcal |-> round0(food.kcal * weight_g, 100),
   p |-> round0(food.p * weight_g, 100), protein_g |-> Undef,
   weight_g |-> weight_g, confidence |-> confidence, manual |-> FALSE]

\* the item analyzeFoodImage makes of an item of meal_preview
ApiItem(it) ==
  [name |-> it.name, portion_g |-> Undef, kcal |-> 10 * it.kcal,
   p |-> 10 * it.p, protein_g |-> Undef, weight_g |-> 100,
   confidence |-> 85, manual |-> FALSE]

\* the combinations fallbackLocalAnalysis picks from
candidates ==
  <<<<"rice", "chicken_breast", "broccoli">>, <<"noodles", "egg", "broccoli">>,
    <<"salmon", "rice", "broccoli">>, <<"oats", "milk", "banana">>,
    <<"tofu", "rice", "broccoli">>, <<"apple", "milk", "oats">>>>

\* round1(0.72 + Math.random() * 0.22), in hundredths, of the three items
Confidences == {<<70, 80, 90>>, <<90, 90, 70>>}

\* fallbackLocalAnalysis, with the combination and the confidences it draws
fallbackLocalAnalysis(pick, conf) ==
  [items |-> [k \in 1 .. 3 |->
                makeItemFromFood(FOOD_DB[candidates[pick][k]],
                                 defaultPortion(candidates[pick][k]),
                                 conf[k])],
   warnings |-> <<"unavailable">>]

\* analyzeFoodImage: the items of the answer of /api/analyze, or the
\* fallback when the request fails or is answered with an error
analyzeFoodImage(visionOk, preview, pick, conf) ==
  IF visionOk
  THEN [items |-> [k \in 1 .. Len(preview) |-> ApiItem(preview[k])],
        warnings |-> <<>>]
  ELSE fallbackLocalAnalysis(pick, conf)

\* onAnalyze with the analysis it awaits: the draft takes res.items
onAnalyzeImage(visionOk, preview, pick, conf) ==
  onAnalyze(analyzeFoodImage(visionOk, preview, pick, conf).items)

NextFallback ==
  \/ \E visionOk \in BOOLEAN, preview \in AnalysisResults,
        pick \in 1 .. Len(candidates), conf \in Confidences :
       onAnalyzeImage(visionOk, preview, pick, conf)
  \/ savePendingMealSync("lunch", "ok", FALSE)

SpecFallback == InitSync /\ [][NextFallback]_vars

\* the draft is one of the canned combinations
IsCanned(meal) ==
  \E pick \in 1 .. Len(candidates) :
    /\ Len(meal.items) = 3
    /\ \A k \in 1 .. 3 : meal.items[k].name = candidates[pick][k]

\* the record says that its items were not recognised by the AI: the source
\* label of an item is 'manual' instead of 'recognized'
TaggedNonAI(meal) == \E k \in 1 .. Len(meal.items) : meal.items[k].manual

\* the analysis of a failed vision call
FellBack ==
  \E preview \in AnalysisResults, pick \in 1 .. Len(candidates),
     conf \in Confidences :
    onAnalyzeImage(FALSE, preview, pick, conf)

\* C30: when the vision call fails, the analysis yields a draft of a canned
\* combination in review, the draft is tagged as not AI-derived, and the
\* saved record of such a draft carries the tag.
C30_FallbackTagged ==
  [][/\ FellBack =>
          /\ pendingMeal' # NoMeal
          /\ IsCanned(pendingMeal')
          /\ TaggedNonAI(pendingMeal')
     /\ \A d \in Days :
          (Len(logs'[d]) > Len(logs[d]) /\ IsCanned(logs'[d][1])) =>
            TaggedNonAI(logs'[d][1])]_vars


(* ----------------------- deleted meals and the pull -------------------- *)
\* saves, pushes, deletes and pulls of a signed-in client, every write
\* succeeding
NextDelete ==
  \/ \E items \in AnalysisResults : onAnalyze(items)
  \/ savePendingMealSync("lunch", "ok", FALSE)
  \/ \E p \in inflight : pushOk(p)
  \/ login
  \/ linkLegacyServed
  \/ reload
  \/ \E rows \in SyncResults(AccountId) : pullOk(rows, "ok", FALSE)
  \/ \E id \in RecordIds : deleteMeal(id, "ok", FALSE)
  \/ \E served \in BOOLEAN : deleteSettled(served, "ok", FALSE)

SpecDelete == InitSync /\ [][NextDelete]_vars

\* the record m shows the meal of the removed record r: it has r's server
\* id, or the id of the row that was posted for r
ShowsRemoved(m, r) ==
  /\ m.cloudId # NoCloudId
  /\ \/ m.cloudId = r.cloudId
     \/ srv[m.cloudId].src = r.id

\* C31: a meal the user deleted is in no day list afterwards, whatever
\* pulls follow: also when it was pushed in the same session, so that the
\* record deleted had no cloudId, and when the DELETE request failed.
C31_DeletedStaysDeleted ==
  \A r \in removed : \A m \in AllRecords(logs) : ~ShowsRemoved(m, r)


(* --------------------------- edits and the pull ------------------------ *)
\* saves, pushes, views, edits and pulls of a signed-in client, every write
\* succeeding
NextEdit ==
  \/ \E items \in AnalysisResults : onAnalyze(items)
  \/ savePendingMealSync("lunch", "ok", FALSE)
  \/ \E p \in inflight : pushOk(p)
  \/ login
  \/ linkLegacyServed
  \/ reload
  \/ \E rows \in SyncResults(AccountId) : pullOk(rows, "ok", FALSE)
  \/ \E id \in RecordIds : viewMeal(id)
  \/ deleteItem(1)
  \/ saveEdit("dinner", "ok", FALSE)

SpecEdit == InitSync /\ [][NextEdit]_vars

\* C32: a pull of one remote record leaves every record that carries its id
\* with the items, the totals and the meal type it had: the rows of the
\* server never change, so what such a record differs in from its row is an
\* edit saved locally.
C32_EditSurvivesPull ==
  [][\A rows \in SyncResults(AccountId) :
       (Len(rows) = 1 /\ pullOk(rows, "ok", FALSE)) =>
         LET row == rows[1]
             d == UtcDay(row.eaten_at)
         IN \A j \in 1 .. Len(logs[d]) :
              logs[d][j].cloudId = row.id =>
                \E k \in 1 .. Len(logs'[d]) :
                  /\ logs'[d][k].cloudId = row.id
                  /\ logs'[d][k].items = logs[d][j].items
                  /\ logs'[d][k].summary = logs[d][j].summary
                  /\ logs'[d][k].mealType = logs[d][j].mealType]_vars

\* the record the sheet was opened from is in today's list, under its id or
\* merged with the row that was posted for it
OriginalPresent ==
  \E j \in 1 .. Len(logs[todayKey]) :
    LET m == logs[todayKey][j]
    IN \/ m.id = editingMealId
       \/ m.cloudId # NoCloudId /\ srv[m.cloudId].src = editingMealId

\* C35: when a pull has merged into the record that is open for editing,
\* saving the edit still updates that record: today's list does not grow and
\* the edit is not reported as saved as a new record.
C35_EditAfterMerge ==
  [][(OriginalPresent /\ saveEdit("dinner", "ok", FALSE)) =>
       /\ Len(logs'[todayKey]) = Len(logs[todayKey])
       /\ toast' = "recordUpdated"]_vars


(* ------------------------ remote records of a pull --------------------- *)
\* C33: after a pull every remote record of its result is in the log: for
\* each of the rows, which have pairwise distinct ids, a record carries its
\* id, also when two rows have the same meal type and eaten_at values less
\* than 60 s apart.
C33_DistinctRowsKept ==
  [][\A rows \in SyncResults(AccountId) :
       pullOk(rows, "ok", FALSE) =>
         \A k \in 1 .. Len(rows) :
           \E m \in AllRecords(logs') : m.cloudId = rows[k].id]_vars


(* ------------------------- the ids of a day's list --------------------- *)
\* new saves, edit saves, deletes and pulls of a signed-in client, every
\* write succeeding
NextLog ==
  \/ \E items \in AnalysisResults : onAnalyze(items)
  \/ savePendingMealSync("lunch", "ok", FALSE)
  \/ \E p \in inflight : pushOk(p)
  \/ login
  \/ linkLegacyServed
  \/ reload
  \/ \E rows \in SyncResults(AccountId) : pullOk(rows, "ok", FALSE)
  \/ \E id \in RecordIds : viewMeal(id)
  \/ saveEdit("dinner", "ok", FALSE)
  \/ \E id \in RecordIds : deleteMeal(id, "ok", FALSE)
  \/ deleteSettled(TRUE, "ok", FALSE)

SpecLog == InitSync /\ [][NextLog]_vars

\* C34: within each day of the log no two records have the same id and no
\* two records have the same cloudId, unless they have none.
C34_IdsUnique ==
  \A d \in Days : \A i, j \in 1 .. Len(logs[d]) :
    i # j =>
      /\ logs[d][i].id # logs[d][j].id
      /\ logs[d][i].cloudId # NoCloudId =>
           logs[d][i].cloudId # logs[d][j].cloudId


(* ------------------- a delete that waits for the server ---------------- *)
\* the ids of the records the day list lst holds
IdsOf(lst) == {lst[i].id : i \in 1 .. Len(lst)}

\* C36: when the delete that waited for the server's answer completes, every
\* record that the day held just before, those saved or merged during the
\* wait included, is still in the log in memory and in the stored log,
\* except the deleted one.
C36_DeleteKeepsOthers ==
  [][\A served \in BOOLEAN :
       deleteSettled(served, "ok", FALSE) =>
         LET d == deleting.day
             kept == IdsOf(logs[d]) \ {deleting.arr[deleting.idx].id}
         IN /\ kept \subseteq IdsOf(logs'[d])
            /\ kept \subseteq IdsOf(lsLogs'[d])]_vars


(* --------------------- a sweep and a push that fails -------------------- *)
\* C37: an entry that a failed push of a newly saved meal appended to the
\* stored queue while a sweep was running, so that the sweep did not load
\* it, is still in the stored queue when the sweep has written its result.
C37_EnqueueSurvivesSweep ==
  [][\A netOk \in BOOLEAN :
       (/\ sweepStep(netOk, "ok", FALSE, "ok", FALSE)
        /\ sweep.i = Len(sweep.pending)) =>
         IdsOf(lsPending) \ IdsOf(sweep.pending)
           \subseteq IdsOf(lsPending')]_vars


(* ------------------------ the day key of a pull ------------------------ *)
\* C38: the day under which the pull files the row of a pushed meal, the
\* day of its eaten_at, is the day under which the save stored the meal,
\* for every instant and every offset of the device's clock from UTC.
C38_PullDayIsSaveDay ==
  \A k \in 1 .. Len(srv) : \A d \in Days : \A i \in 1 .. Len(logs[d]) :
    logs[d][i].id = srv[k].src => d = UtcDay(srv[k].eaten_at)


(* ------------------------- one save for a draft ------------------------ *)
\* the number of records of the log
RECURSIVE SumLen(_, _)
SumLen(lg, ds) ==
  IF ds = {} THEN 0
  ELSE LET d == CHOOSE x \in ds : TRUE
       IN Len(lg[d]) + SumLen(lg, ds \ {d})

NumRecords(lg) == SumLen(lg, Days)

\* C39: a reviewed draft gives at most one saved record and at most one
\* push, however often the save handler runs: a run of the handler adds at
\* most one record and starts at most one push, a run that adds a record or
\* starts a push uses the draft up, and a run without a draft adds nothing,
\* starts nothing and opens no draft.
C39_OneSavePerDraft ==
  [][saveMealHandler =>
       /\ NumRecords(logs') <= NumRecords(logs) + 1
       /\ Cardinality(inflight') <= Cardinality(inflight) + 1
       /\ (NumRecords(logs') > NumRecords(logs) \/ inflight' # inflight)
            => pendingMeal' = NoMeal
       /\ pendingMeal = NoMeal =>
            /\ NumRecords(logs') = NumRecords(logs)
            /\ inflight' = inflight
            /\ pendingMeal' = NoMeal]_vars

\* the handler ran again after the draft was saved, and was turned away
C39_Witness == toast = "noItems" /\ NumRecords(logs) > 0 /\ nextId > 1


(* ------------------------- the link on the server ---------------------- *)
\* clients of the device id and of the account post meals, goals and
\* activity, and link requests arrive
NextLink ==
  \/ \E req \in ServerRequests, i \in PostInstants : srvPost(req, i)
  \/ \E req \in ServerRequests : srvPostGoal(req, defaultProfile)
  \/ \E req \in ServerRequests, day \in ServerDays, kcal \in ExerciseKcals :
       srvPostActivity(req, day, kcal)
  \/ \E req \in ServerRequests, legacy \in LegacyIds :
       srvLinkLegacy(req, legacy)

SpecLink == InitSync /\ [][NextLink]_vars

\* no meal, goal or activity row is owned by the identity
OwnsNothing(owner, meals, goal, activity) ==
  /\ \A i \in 1 .. Len(meals) : meals[i].owner # owner
  /\ goal = NoGoal
  /\ \A a \in activity : a.owner # owner

\* C40: after a link-legacy request either every meal, goal and activity
\* row of the legacy id belongs to the account or no row has changed, also
\* when the account already owns a goal row or an activity row of a day the
\* legacy id has one for.
C40_LinkAllOrNothing ==
  [][\A req \in ServerRequests :
       srvLinkLegacy(req, DeviceId(Instant(1))) =>
         \/ OwnsNothing(DeviceId(Instant(1)), srv', srvDeviceGoal',
                        srvActivity')
         \/ /\ srv' = srv
            /\ srvGoal' = srvGoal
            /\ srvDeviceGoal' = srvDeviceGoal
            /\ srvActivity' = srvActivity]_vars

====
